---------------------------- MODULE Spec2Model ----------------------------
(***************************************************************************)
(* A model of cpar (src/cpar.h): the parser of CSS-like colour strings,    *)
(* its colour-name table and lookups, and cpar_strerror.                   *)
(*                                                                         *)
(* Representation.                                                         *)
(*   - A character is a one-character string; a C string is the sequence   *)
(*     of its characters up to, and without, the terminating NUL.  A       *)
(*     buffer that the code writes NULs into (strtok) is a sequence that   *)
(*     holds the NUL characters too.                                       *)
(*   - A pointer that may be NULL is a record [null, ...].                 *)
(*   - A packed uint32_t colour is the tuple <<r, g, b, a>> of its four    *)
(*     bytes, most significant first (TLC's integers are 32-bit signed,    *)
(*     0xff0000ff does not fit).  Hi16/Lo16 give its two 16-bit halves     *)
(*     where the code does arithmetic on the whole word.                   *)
(*   - A long is kept exactly up to LongSat in magnitude and saturates     *)
(*     there; overflow of the real 64-bit long is decided on the digits.   *)
(***************************************************************************)
EXTENDS Integers, Sequences, FiniteSets, TLC

(***************************************************************************)
(* Characters: <ctype.h> in the C locale.                                  *)
(***************************************************************************)
NUL == "NUL"

\* Code 96 stands under a name: the lexer takes no backquote in a string.

Printable ==
  << " ", "!", "\"", "#", "$", "%", "&", "'", "(", ")", "*", "+", ",", "-", ".", "/",
     "0", "1", "2", "3", "4", "5", "6", "7", "8", "9", ":", ";", "<", "=", ">", "?",
     "@", "A", "B", "C", "D", "E", "F", "G", "H", "I", "J", "K", "L", "M", "N", "O",
     "P", "Q", "R", "S", "T", "U", "V", "W", "X", "Y", "Z", "[", "\\", "]", "^", "_",
     "BACKQUOTE", "a", "b", "c", "d", "e", "f", "g", "h", "i", "j", "k", "l", "m", "n", "o",
     "p", "q", "r", "s", "t", "u", "v", "w", "x", "y", "z", "{", "|", "}", "~" >>

Control == << "\t", "\n", "\f", "\r" >>

ControlCode == << 9, 10, 12, 13 >>

Chars == {Printable[i] : i \in 1..Len(Printable)} \cup {Control[i] : i \in 1..Len(Control)}

\* The character code (ASCII) of c; NUL is 0.
RECURSIVE CodeTable(_)
CodeTable(i) ==
  IF i = 0
  THEN (NUL :> 0) @@ [c \in {Control[k] : k \in 1..Len(Control)} |->
                        ControlCode[CHOOSE k \in 1..Len(Control) : Control[k] = c]]
  ELSE (Printable[i] :> 31 + i) @@ CodeTable(i - 1)

Code == CodeTable(Len(Printable))

isspace(c) == c \in {" ", "\t", "\n", "\f", "\r"}

isupper(c) == Code[c] >= 65 /\ Code[c] <= 90

tolower(c) == IF isupper(c) THEN Printable[Code[c] + 32 - 31] ELSE c

isdigit(c) == Code[c] >= 48 /\ Code[c] <= 57

\* The value of c as a digit in base, or -1 when it is none.
DigitValue(c, base) ==
  LET v == IF isdigit(c) THEN Code[c] - 48
           ELSE IF Code[c] >= 97 /\ Code[c] <= 122 THEN Code[c] - 97 + 10
           ELSE IF Code[c] >= 65 /\ Code[c] <= 90 THEN Code[c] - 65 + 10
           ELSE -1
  IN IF v >= 0 /\ v < base THEN v ELSE -1

(***************************************************************************)
(* enum cpar_status.                                                       *)
(***************************************************************************)
CPAR_STATUS_OK == 0
CPAR_STATUS_INVALID_PARAMETER == 1
CPAR_STATUS_TOO_BIG == 2
CPAR_STATUS_INVALID_NUMBER == 3
CPAR_STATUS_NUMBER_RANGE == 4
CPAR_STATUS_SYNTAX_ERROR == 5
CPAR_STATUS_NO_COLOR_NAME == 6

CPAR_COLOR_PARSE_BUFFER_LEN == 64
CPAR_COLOR_PARSE_BUFFER_MAX == CPAR_COLOR_PARSE_BUFFER_LEN - 1

(***************************************************************************)
(* The colour macros.  The arguments of CPAR_COLOR_MAKE are converted to   *)
(* uint32_t, shifted and masked: each contributes its low eight bits.      *)
(***************************************************************************)
CPAR_COLOR_MAKE(r, g, b, a) == << r % 256, g % 256, b % 256, a % 256 >>

CPAR_COLOR_RED(c) == c[1]
CPAR_COLOR_GREEN(c) == c[2]
CPAR_COLOR_BLUE(c) == c[3]
CPAR_COLOR_ALPHA(c) == c[4]

Hi16(c) == c[1] * 256 + c[2]
Lo16(c) == c[3] * 256 + c[4]

(***************************************************************************)
(* strtol(nptr, &ep, base) for base 10 and 16, called with errno = 0.      *)
(* Result: value (saturated at LongSat), end (the index of the first       *)
(* character not consumed, Len + 1 when ep points at the NUL), errno.      *)
(***************************************************************************)
LongSat == 65536
ERANGE == 34

LONG_MAX_DIGITS(base) ==
  IF base = 16
  THEN << 7, 15, 15, 15, 15, 15, 15, 15, 15, 15, 15, 15, 15, 15, 15, 15 >>
  ELSE << 9, 2, 2, 3, 3, 7, 2, 0, 3, 6, 8, 5, 4, 7, 7, 5, 8, 0, 7 >>

\* -LONG_MIN, one more than LONG_MAX.
LONG_MIN_DIGITS(base) ==
  IF base = 16
  THEN << 8, 0, 0, 0, 0, 0, 0, 0, 0, 0, 0, 0, 0, 0, 0, 0 >>
  ELSE << 9, 2, 2, 3, 3, 7, 2, 0, 3, 6, 8, 5, 4, 7, 7, 5, 8, 0, 8 >>

\* The first index >= i of s that does not satisfy: s[j] is a digit of base.
RECURSIVE DigitsEnd(_, _, _)
DigitsEnd(s, i, base) ==
  IF i <= Len(s) /\ s[i] # NUL /\ DigitValue(s[i], base) >= 0
  THEN DigitsEnd(s, i + 1, base)
  ELSE i

RECURSIVE SkipSpace(_, _)
SkipSpace(s, i) ==
  IF i <= Len(s) /\ isspace(s[i]) THEN SkipSpace(s, i + 1) ELSE i

RECURSIVE SkipZeros(_, _, _)
SkipZeros(s, i, e) ==
  IF i < e /\ s[i] = "0" THEN SkipZeros(s, i + 1, e) ELSE i

\* The digits s[i..e-1] as a number, saturating at LongSat.
RECURSIVE Accumulate(_, _, _, _, _)
Accumulate(s, i, e, base, acc) ==
  IF i >= e THEN acc
  ELSE LET n == acc * base + DigitValue(s[i], base)
       IN Accumulate(s, i + 1, e, base, IF n > LongSat THEN LongSat ELSE n)

\* Whether the digits s[i..e-1] (no leading zero) exceed the number limit.
RECURSIVE DigitsGreater(_, _, _, _, _)
DigitsGreater(s, i, e, base, limit) ==
  LET n == e - i
  IN IF n # Len(limit) THEN n > Len(limit)
     ELSE IF n = 0 THEN FALSE
     ELSE LET d == DigitValue(s[i], base)
          IN IF d # limit[1] THEN d > limit[1]
             ELSE DigitsGreater(s, i + 1, e, base, Tail(limit))

\* The index after an optional sign at i0, and whether the sign is '-'.
SignEnd(nptr, i0) ==
  IF i0 <= Len(nptr) /\ nptr[i0] \in {"+", "-"} THEN i0 + 1 ELSE i0

IsNegative(nptr, i0) == i0 <= Len(nptr) /\ nptr[i0] = "-"

\* The index after an optional "0x" at i1: a prefix only in base 16 and
\* only when a hexadecimal digit follows it.
PrefixEnd(nptr, base, i1) ==
  IF /\ base = 16
     /\ i1 + 2 <= Len(nptr)
     /\ nptr[i1] = "0"
     /\ nptr[i1 + 1] \in {"x", "X"}
     /\ DigitValue(nptr[i1 + 2], 16) >= 0
  THEN i1 + 2
  ELSE i1

\* The conversion of the digits nptr[i2..e-1].
StrtolValue(nptr, base, neg, i2, e) ==
  IF e = i2
  THEN \* no digits: no conversion, ep = nptr
       [value |-> 0, end |-> 1, errno |-> 0]
  ELSE IF DigitsGreater(nptr, SkipZeros(nptr, i2, e), e, base,
                        IF neg THEN LONG_MIN_DIGITS(base) ELSE LONG_MAX_DIGITS(base))
  THEN [value |-> IF neg THEN -LongSat ELSE LongSat, end |-> e, errno |-> ERANGE]
  ELSE [value |-> (IF neg THEN -1 ELSE 1)
                    * Accumulate(nptr, SkipZeros(nptr, i2, e), e, base, 0),
        end |-> e, errno |-> 0]

StrtolDigits(nptr, base, neg, i2) ==
  StrtolValue(nptr, base, neg, i2, DigitsEnd(nptr, i2, base))

StrtolSign(nptr, base, i0) ==
  StrtolDigits(nptr, base, IsNegative(nptr, i0),
               PrefixEnd(nptr, base, SignEnd(nptr, i0)))

strtol(nptr, base) == StrtolSign(nptr, base, SkipSpace(nptr, 1))

\* *ep == '\0' for the result r of a conversion of the C string s.
AtEnd(s, r) == r.end > Len(s)

(***************************************************************************)
(* What the C standard leaves to the build and the C library, as a record  *)
(* impl that the parsing operators take:                                   *)
(*   uchar_conv   - the result of converting to uint8_t a floating value   *)
(*                  whose integral part is above 255 (undefined behaviour: *)
(*                  "wrap" keeps the low eight bits, "saturate" gives 255);*)
(*   noconv_errno - errno after a strtol that performed no conversion      *)
(*                  (0, or EINVAL where the library sets it).              *)
(***************************************************************************)
EINVAL == 22

Impls == [uchar_conv : {"wrap", "saturate"}, noconv_errno : {0, EINVAL}]

\* errno after strtol returned r.
ErrnoAfter(r, impl) ==
  IF r.end = 1 /\ r.errno = 0 THEN impl.noconv_errno ELSE r.errno

(***************************************************************************)
(* What a function does to errno, as the function from errno at its entry  *)
(* to errno at its return: KeepErrno for a function that leaves errno      *)
(* alone or ends with errno = eno, SetErrno(v) for one that returns after  *)
(* errno = 0 and a conversion that left errno v.  EDOM is a value that     *)
(* errno may hold before the call and that no conversion sets.             *)
(***************************************************************************)
EDOM == 33

Errnos == {0, EDOM, ERANGE, EINVAL}

KeepErrno == [e \in Errnos |-> e]

SetErrno(v) == [e \in Errnos |-> v]

\* f, then g.
ThenErrno(f, g) == [e \in Errnos |-> g[f[e]]]

(***************************************************************************)
(* cpar_hex_byte_to_int: a 2-character string to a byte.                   *)
(***************************************************************************)
\* The checks on the result r of strtol(hex_str, &ep, 16), which left
\* errno e; errno = eno is reached on the way to the return of OK only.
HexByteChecks(hex_str, r, e) ==
  IF e # 0
  THEN [status |-> CPAR_STATUS_INVALID_NUMBER, result |-> 0, errno |-> SetErrno(e)]
  ELSE IF r.value < 0 \/ r.value > 255
  THEN [status |-> CPAR_STATUS_NUMBER_RANGE, result |-> 0, errno |-> SetErrno(e)]
  ELSE IF ~AtEnd(hex_str, r)
  THEN [status |-> CPAR_STATUS_INVALID_NUMBER, result |-> 0, errno |-> SetErrno(e)]
  ELSE [status |-> CPAR_STATUS_OK, result |-> r.value % 256, errno |-> KeepErrno]

cpar_hex_byte_to_int(hex_str, impl) ==
  HexByteChecks(hex_str, strtol(hex_str, 16), ErrnoAfter(strtol(hex_str, 16), impl))

\* (uint8_t)x for a floating x >= 0 of integral part n.
FloatToUint8(n, impl) ==
  IF n <= 255 THEN n
  ELSE IF impl.uchar_conv = "wrap" THEN n % 256 ELSE 255

(***************************************************************************)
(* cpar_parse_component_rgb: one R, G or B token, a decimal integer with   *)
(* an optional trailing '%'.  str is a token of strtok, never empty (the   *)
(* read of str[str_len - 1] is inside the string).  The result also gives  *)
(* the token as the function leaves it: the '%' overwritten by NUL.        *)
(* ((float)val / 100.0) * 255.0 is val * 2.55 in double; its integral part *)
(* is (val * 255) \div 100 for every val in 0..255.                        *)
(***************************************************************************)
\* is_percent, and the token without its '%'.
HasPercent(str) == Len(str) > 0 /\ str[Len(str)] = "%"

NumberPart(str) == IF HasPercent(str) THEN SubSeq(str, 1, Len(str) - 1) ELSE str

\* A variant that rounds to the nearest integer.
PercentScaleRound(val) == (val * 255 + 50) \div 100

\* The integral part of ((float)val / 100.0) * 255.0.
PercentScale(val) == (val * 255) \div 100

\* The checks on the result r of strtol(str, &ep, 10), and the scaling.
\* The errno saved in e at the entry is not written back on any path.
RgbChecks(num, r, percent, impl) ==
  IF ErrnoAfter(r, impl) # 0 \/ ~AtEnd(num, r)
  THEN [status |-> CPAR_STATUS_INVALID_NUMBER, out |-> 0, percent |-> percent,
        errno |-> SetErrno(ErrnoAfter(r, impl))]
  ELSE IF r.value < 0 \/ r.value > 255
  THEN [status |-> CPAR_STATUS_NUMBER_RANGE, out |-> 0, percent |-> percent,
        errno |-> SetErrno(ErrnoAfter(r, impl))]
  ELSE [status |-> CPAR_STATUS_OK,
        out |-> IF percent
                THEN FloatToUint8(PercentScale(r.value), impl)
                ELSE r.value % 256,
        percent |-> percent,
        errno |-> SetErrno(ErrnoAfter(r, impl))]

cpar_parse_component_rgb(str, impl) ==
  RgbChecks(NumberPart(str), strtol(NumberPart(str), 10), HasPercent(str), impl)

(***************************************************************************)
(* strtof(nptr, &ep) on the decimal forms [sign] digits [. digits] with at *)
(* most FracDigits digits after the point (no exponent, hexadecimal, inf   *)
(* or nan: the tokens of this model have none).  The value is num / den,   *)
(* den a power of ten; on such short decimals the comparisons of the float *)
(* with 0.0f and 1.0f agree with those of the rational.                    *)
(***************************************************************************)
FracDigits == 4

RECURSIVE Pow10(_)
Pow10(k) == IF k = 0 THEN 1 ELSE 10 * Pow10(k - 1)

\* The index where the digits of the fraction start: after a '.' at e1.
FractionStart(nptr, e1) ==
  IF e1 <= Len(nptr) /\ nptr[e1] = "." THEN e1 + 1 ELSE e1

\* The last fraction digit used is before this index.
FractionUsed(f1, e2raw) ==
  IF e2raw - f1 > FracDigits THEN f1 + FracDigits ELSE e2raw

\* The value of the integer digits nptr[i1..e1-1] and the fraction digits
\* nptr[f1..e2raw-1].
StrtofValue(nptr, neg, i1, e1, f1, e2raw) ==
  IF (e1 - i1) + (e2raw - f1) = 0
  THEN [num |-> 0, den |-> 1, end |-> 1, errno |-> 0]
  ELSE [num |-> (IF neg THEN -1 ELSE 1)
                  * (Accumulate(nptr, i1, e1, 10, 0) * Pow10(FractionUsed(f1, e2raw) - f1)
                     + Accumulate(nptr, f1, FractionUsed(f1, e2raw), 10, 0)),
        den |-> Pow10(FractionUsed(f1, e2raw) - f1),
        end |-> e2raw,
        errno |-> 0]

StrtofFraction(nptr, neg, i1, e1, f1) ==
  StrtofValue(nptr, neg, i1, e1, f1,
              IF f1 > e1 THEN DigitsEnd(nptr, f1, 10) ELSE e1)

StrtofDigits(nptr, neg, i1, e1) ==
  StrtofFraction(nptr, neg, i1, e1, FractionStart(nptr, e1))

StrtofSign(nptr, i0) ==
  StrtofDigits(nptr, IsNegative(nptr, i0), SignEnd(nptr, i0),
               DigitsEnd(nptr, SignEnd(nptr, i0), 10))

strtof(nptr) == StrtofSign(nptr, SkipSpace(nptr, 1))

(***************************************************************************)
(* cpar_parse_component_a: the alpha token, a float in 0..1.  The byte     *)
(* stored is val / 255.0f converted to uint8_t: its integral part.         *)
(***************************************************************************)
\* The checks on the result r of strtof(str, &ep), and the store.
AlphaChecks(str, r, impl) ==
  IF r.errno # 0 \/ ~AtEnd(str, r)
  THEN [status |-> CPAR_STATUS_INVALID_NUMBER, out |-> 0, percent |-> FALSE,
        errno |-> SetErrno(r.errno)]
  ELSE IF r.num < 0 \/ r.num > r.den
  THEN [status |-> CPAR_STATUS_NUMBER_RANGE, out |-> 0, percent |-> FALSE,
        errno |-> SetErrno(r.errno)]
  ELSE [status |-> CPAR_STATUS_OK,
        out |-> FloatToUint8(r.num \div (r.den * 255), impl),
        percent |-> FALSE,
        errno |-> KeepErrno]

cpar_parse_component_a(str, impl) == AlphaChecks(str, strtof(str), impl)

(***************************************************************************)
(* strtok(str, ","): its one static save pointer is the caller's olds.     *)
(* A buffer is a sequence that ends with NUL; a pointer into it an index,  *)
(* 0 for NULL.  strtok_r returns the token's index, the buffer with the    *)
(* delimiter that ends the token overwritten by NUL, and the save pointer. *)
(***************************************************************************)
RECURSIVE strspn(_, _)
strspn(buf, i) == IF buf[i] = "," THEN strspn(buf, i + 1) ELSE i

RECURSIVE strcspn(_, _)
strcspn(buf, i) == IF buf[i] \in {",", NUL} THEN i ELSE strcspn(buf, i + 1)

\* The token that starts at b and ends before e.
TokenAt(buf, b, e) ==
  IF buf[b] = NUL THEN [tok |-> 0, buf |-> buf, save |-> b]
  ELSE IF buf[e] = NUL THEN [tok |-> b, buf |-> buf, save |-> e]
  ELSE [tok |-> b, buf |-> [buf EXCEPT ![e] = NUL], save |-> e + 1]

TokenFrom(buf, b) == TokenAt(buf, b, strcspn(buf, b))

strtok_r(buf, s) == TokenFrom(buf, strspn(buf, s))

\* The C string that starts at index i of buf.
RECURSIVE NulAt(_, _)
NulAt(buf, i) == IF buf[i] = NUL THEN i ELSE NulAt(buf, i + 1)

CStr(buf, i) == SubSeq(buf, i, NulAt(buf, i) - 1)

(***************************************************************************)
(* cpar_parse_comma_components.  ch = <<r, g, b, a>> are the caller's      *)
(* channel variables, written through rout..aout as tokens parse.          *)
(***************************************************************************)
\* The store through rout, gout, bout or aout of the component result c.
StoreComponent(c, i, ch) ==
  [status |-> c.status,
   ch |-> IF c.status = CPAR_STATUS_OK THEN [ch EXCEPT ![i + 1] = c.out] ELSE ch,
   percent |-> c.percent,
   errno |-> c.errno]

\* One turn of the loop body on the token text tok: parse component i.
ParseComponent(tok, i, ch, impl) ==
  StoreComponent(IF i = 3 THEN cpar_parse_component_a(tok, impl)
                 ELSE cpar_parse_component_rgb(tok, impl),
                 i, ch)

\* The token's buffer after cpar_parse_component_rgb overwrote its '%'.
StripPercent(buf, tok, percent) ==
  IF percent THEN [buf EXCEPT ![NulAt(buf, tok) - 1] = NUL] ELSE buf

\* A variant of the check after the loop that accepts any count.
CountStatusLenient(i, n_comp) == CPAR_STATUS_OK

\* if (i != n_comp) return CPAR_STATUS_SYNTAX_ERROR; return CPAR_STATUS_OK;
CountStatus(i, n_comp) ==
  IF i # n_comp THEN CPAR_STATUS_SYNTAX_ERROR ELSE CPAR_STATUS_OK

RECURSIVE CommaLoop(_, _, _, _, _, _, _, _)
RECURSIVE CommaFrom(_, _, _, _, _, _)
RECURSIVE CommaBody(_, _, _, _, _, _, _, _)

\* while (tok && i < n_comp) { ... }, then the check of the count.  en is
\* what the function did to errno so far.
CommaLoop(buf, olds, tok, i, n_comp, ch, en, impl) ==
  IF tok # 0 /\ i < n_comp
  THEN CommaBody(buf, olds, tok, i, n_comp,
                 ParseComponent(CStr(buf, tok), i, ch, impl), en, impl)
  ELSE [status |-> CountStatus(i, n_comp), ch |-> ch, errno |-> en]

\* A variant of the loop body that goes on to the next token whatever the
\* component parser returned.
CommaBodyRecover(buf, olds, tok, i, n_comp, c, en, impl) ==
  CommaFrom(strtok_r(StripPercent(buf, tok, c.percent), olds),
            i + 1, n_comp, c.ch, ThenErrno(en, c.errno), impl)

\* The loop body after the component parser returned c: return its status,
\* or i++ and tok = strtok(NULL, ",").
CommaBody(buf, olds, tok, i, n_comp, c, en, impl) ==
  IF c.status # CPAR_STATUS_OK
  THEN [status |-> c.status, ch |-> c.ch, errno |-> ThenErrno(en, c.errno)]
  ELSE CommaFrom(strtok_r(StripPercent(buf, tok, c.percent), olds),
                 i + 1, n_comp, c.ch, ThenErrno(en, c.errno), impl)

\* The loop from the token t that strtok returned.
CommaFrom(t, i, n_comp, ch, en, impl) ==
  CommaLoop(t.buf, t.save, t.tok, i, n_comp, ch, en, impl)

cpar_parse_comma_components(str, n_comp, ch, impl) ==
  CommaFrom(strtok_r(str \o << NUL >>, 1), 0, n_comp, ch, KeepErrno, impl)

(***************************************************************************)
(* The colour-name table, in the order of the source.                      *)
(***************************************************************************)
Info(name, value) == [name |-> name, value |-> value]

cpar_color_name_table ==
  <<
       Info(<<"b","l","a","c","k">>, CPAR_COLOR_MAKE(0, 0, 0, 255)),
       Info(<<"s","i","l","v","e","r">>, CPAR_COLOR_MAKE(192, 192, 192, 255)),
       Info(<<"g","r","a","y">>, CPAR_COLOR_MAKE(128, 128, 128, 255)),
       Info(<<"w","h","i","t","e">>, CPAR_COLOR_MAKE(255, 255, 255, 255)),
       Info(<<"m","a","r","o","o","n">>, CPAR_COLOR_MAKE(128, 0, 0, 255)),
       Info(<<"r","e","d">>, CPAR_COLOR_MAKE(255, 0, 0, 255)),
       Info(<<"p","u","r","p","l","e">>, CPAR_COLOR_MAKE(128, 0, 128, 255)),
       Info(<<"f","u","c","h","s","i","a">>, CPAR_COLOR_MAKE(255, 0, 255, 255)),
       Info(<<"g","r","e","e","n">>, CPAR_COLOR_MAKE(0, 128, 0, 255)),
       Info(<<"l","i","m","e">>, CPAR_COLOR_MAKE(0, 255, 0, 255)),
       Info(<<"o","l","i","v","e">>, CPAR_COLOR_MAKE(128, 128, 0, 255)),
       Info(<<"y","e","l","l","o","w">>, CPAR_COLOR_MAKE(255, 255, 0, 255)),
       Info(<<"n","a","v","y">>, CPAR_COLOR_MAKE(0, 0, 128, 255)),
       Info(<<"b","l","u","e">>, CPAR_COLOR_MAKE(0, 0, 255, 255)),
       Info(<<"t","e","a","l">>, CPAR_COLOR_MAKE(0, 128, 128, 255)),
       Info(<<"a","q","u","a">>, CPAR_COLOR_MAKE(0, 255, 255, 255)),
       Info(<<"a","l","i","c","e","b","l","u","e">>, CPAR_COLOR_MAKE(240, 248, 255, 255)),
       Info(<<"a","n","t","i","q","u","e","w","h","i","t","e">>, CPAR_COLOR_MAKE(250, 235, 215, 255)),
       Info(<<"a","q","u","a">>, CPAR_COLOR_MAKE(0, 255, 255, 255)),
       Info(<<"a","q","u","a","m","a","r","i","n","e">>, CPAR_COLOR_MAKE(127, 255, 212, 255)),
       Info(<<"a","z","u","r","e">>, CPAR_COLOR_MAKE(240, 255, 255, 255)),
       Info(<<"b","e","i","g","e">>, CPAR_COLOR_MAKE(245, 245, 220, 255)),
       Info(<<"b","i","s","q","u","e">>, CPAR_COLOR_MAKE(255, 228, 196, 255)),
       Info(<<"b","l","a","c","k">>, CPAR_COLOR_MAKE(0, 0, 0, 255)),
       Info(<<"b","l","a","n","c","h","e","d","a","l","m","o","n","d">>, CPAR_COLOR_MAKE(255, 235, 205, 255)),
       Info(<<"b","l","u","e">>, CPAR_COLOR_MAKE(0, 0, 255, 255)),
       Info(<<"b","l","u","e","v","i","o","l","e","t">>, CPAR_COLOR_MAKE(138, 43, 226, 255)),
       Info(<<"b","r","o","w","n">>, CPAR_COLOR_MAKE(165, 42, 42, 255)),
       Info(<<"b","u","r","l","y","w","o","o","d">>, CPAR_COLOR_MAKE(222, 184, 135, 255)),
       Info(<<"c","a","d","e","t","b","l","u","e">>, CPAR_COLOR_MAKE(95, 158, 160, 255)),
       Info(<<"c","h","a","r","t","r","e","u","s","e">>, CPAR_COLOR_MAKE(127, 255, 0, 255)),
       Info(<<"c","h","o","c","o","l","a","t","e">>, CPAR_COLOR_MAKE(210, 105, 30, 255)),
       Info(<<"c","o","r","a","l">>, CPAR_COLOR_MAKE(255, 127, 80, 255)),
       Info(<<"c","o","r","n","f","l","o","w","e","r","b","l","u","e">>, CPAR_COLOR_MAKE(100, 149, 237, 255)),
       Info(<<"c","o","r","n","s","i","l","k">>, CPAR_COLOR_MAKE(255, 248, 220, 255)),
       Info(<<"c","r","i","m","s","o","n">>, CPAR_COLOR_MAKE(220, 20, 60, 255)),
       Info(<<"c","y","a","n">>, CPAR_COLOR_MAKE(0, 255, 255, 255)),
       Info(<<"d","a","r","k","b","l","u","e">>, CPAR_COLOR_MAKE(0, 0, 139, 255)),
       Info(<<"d","a","r","k","c","y","a","n">>, CPAR_COLOR_MAKE(0, 139, 139, 255)),
       Info(<<"d","a","r","k","g","o","l","d","e","n","r","o","d">>, CPAR_COLOR_MAKE(184, 134, 11, 255)),
       Info(<<"d","a","r","k","g","r","a","y">>, CPAR_COLOR_MAKE(169, 169, 169, 255)),
       Info(<<"d","a","r","k","g","r","e","e","n">>, CPAR_COLOR_MAKE(0, 100, 0, 255)),
       Info(<<"d","a","r","k","g","r","e","y">>, CPAR_COLOR_MAKE(169, 169, 169, 255)),
       Info(<<"d","a","r","k","k","h","a","k","i">>, CPAR_COLOR_MAKE(189, 183, 107, 255)),
       Info(<<"d","a","r","k","m","a","g","e","n","t","a">>, CPAR_COLOR_MAKE(139, 0, 139, 255)),
       Info(<<"d","a","r","k","o","l","i","v","e","g","r","e","e","n">>, CPAR_COLOR_MAKE(85, 107, 47, 255)),
       Info(<<"d","a","r","k","o","r","a","n","g","e">>, CPAR_COLOR_MAKE(255, 140, 0, 255)),
       Info(<<"d","a","r","k","o","r","c","h","i","d">>, CPAR_COLOR_MAKE(153, 50, 204, 255)),
       Info(<<"d","a","r","k","r","e","d">>, CPAR_COLOR_MAKE(139, 0, 0, 255)),
       Info(<<"d","a","r","k","s","a","l","m","o","n">>, CPAR_COLOR_MAKE(233, 150, 122, 255)),
       Info(<<"d","a","r","k","s","e","a","g","r","e","e","n">>, CPAR_COLOR_MAKE(143, 188, 143, 255)),
       Info(<<"d","a","r","k","s","l","a","t","e","b","l","u","e">>, CPAR_COLOR_MAKE(72, 61, 139, 255)),
       Info(<<"d","a","r","k","s","l","a","t","e","g","r","a","y">>, CPAR_COLOR_MAKE(47, 79, 79, 255)),
       Info(<<"d","a","r","k","s","l","a","t","e","g","r","e","y">>, CPAR_COLOR_MAKE(47, 79, 79, 255)),
       Info(<<"d","a","r","k","t","u","r","q","u","o","i","s","e">>, CPAR_COLOR_MAKE(0, 206, 209, 255)),
       Info(<<"d","a","r","k","v","i","o","l","e","t">>, CPAR_COLOR_MAKE(148, 0, 211, 255)),
       Info(<<"d","e","e","p","p","i","n","k">>, CPAR_COLOR_MAKE(255, 20, 147, 255)),
       Info(<<"d","e","e","p","s","k","y","b","l","u","e">>, CPAR_COLOR_MAKE(0, 191, 255, 255)),
       Info(<<"d","i","m","g","r","a","y">>, CPAR_COLOR_MAKE(105, 105, 105, 255)),
       Info(<<"d","i","m","g","r","e","y">>, CPAR_COLOR_MAKE(105, 105, 105, 255)),
       Info(<<"d","o","d","g","e","r","b","l","u","e">>, CPAR_COLOR_MAKE(30, 144, 255, 255)),
       Info(<<"f","i","r","e","b","r","i","c","k">>, CPAR_COLOR_MAKE(178, 34, 34, 255)),
       Info(<<"f","l","o","r","a","l","w","h","i","t","e">>, CPAR_COLOR_MAKE(255, 250, 240, 255)),
       Info(<<"f","o","r","e","s","t","g","r","e","e","n">>, CPAR_COLOR_MAKE(34, 139, 34, 255)),
       Info(<<"f","u","c","h","s","i","a">>, CPAR_COLOR_MAKE(255, 0, 255, 255)),
       Info(<<"g","a","i","n","s","b","o","r","o">>, CPAR_COLOR_MAKE(220, 220, 220, 255)),
       Info(<<"g","h","o","s","t","w","h","i","t","e">>, CPAR_COLOR_MAKE(248, 248, 255, 255)),
       Info(<<"g","o","l","d">>, CPAR_COLOR_MAKE(255, 215, 0, 255)),
       Info(<<"g","o","l","d","e","n","r","o","d">>, CPAR_COLOR_MAKE(218, 165, 32, 255)),
       Info(<<"g","r","a","y">>, CPAR_COLOR_MAKE(128, 128, 128, 255)),
       Info(<<"g","r","e","e","n">>, CPAR_COLOR_MAKE(0, 128, 0, 255)),
       Info(<<"g","r","e","e","n","y","e","l","l","o","w">>, CPAR_COLOR_MAKE(173, 255, 47, 255)),
       Info(<<"g","r","e","y">>, CPAR_COLOR_MAKE(128, 128, 128, 255)),
       Info(<<"h","o","n","e","y","d","e","w">>, CPAR_COLOR_MAKE(240, 255, 240, 255)),
       Info(<<"h","o","t","p","i","n","k">>, CPAR_COLOR_MAKE(255, 105, 180, 255)),
       Info(<<"i","n","d","i","a","n","r","e","d">>, CPAR_COLOR_MAKE(205, 92, 92, 255)),
       Info(<<"i","n","d","i","g","o">>, CPAR_COLOR_MAKE(75, 0, 130, 255)),
       Info(<<"i","v","o","r","y">>, CPAR_COLOR_MAKE(255, 255, 240, 255)),
       Info(<<"k","h","a","k","i">>, CPAR_COLOR_MAKE(240, 230, 140, 255)),
       Info(<<"l","a","v","e","n","d","e","r">>, CPAR_COLOR_MAKE(230, 230, 250, 255)),
       Info(<<"l","a","v","e","n","d","e","r","b","l","u","s","h">>, CPAR_COLOR_MAKE(255, 240, 245, 255)),
       Info(<<"l","a","w","n","g","r","e","e","n">>, CPAR_COLOR_MAKE(124, 252, 0, 255)),
       Info(<<"l","e","m","o","n","c","h","i","f","f","o","n">>, CPAR_COLOR_MAKE(255, 250, 205, 255)),
       Info(<<"l","i","g","h","t","b","l","u","e">>, CPAR_COLOR_MAKE(173, 216, 230, 255)),
       Info(<<"l","i","g","h","t","c","o","r","a","l">>, CPAR_COLOR_MAKE(240, 128, 128, 255)),
       Info(<<"l","i","g","h","t","c","y","a","n">>, CPAR_COLOR_MAKE(224, 255, 255, 255)),
       Info(<<"l","i","g","h","t","g","o","l","d","e","n","r","o","d","y","e","l","l","o","w">>, CPAR_COLOR_MAKE(250, 250, 210, 255)),
       Info(<<"l","i","g","h","t","g","r","a","y">>, CPAR_COLOR_MAKE(211, 211, 211, 255)),
       Info(<<"l","i","g","h","t","g","r","e","e","n">>, CPAR_COLOR_MAKE(144, 238, 144, 255)),
       Info(<<"l","i","g","h","t","g","r","e","y">>, CPAR_COLOR_MAKE(211, 211, 211, 255)),
       Info(<<"l","i","g","h","t","p","i","n","k">>, CPAR_COLOR_MAKE(255, 182, 193, 255)),
       Info(<<"l","i","g","h","t","s","a","l","m","o","n">>, CPAR_COLOR_MAKE(255, 160, 122, 255)),
       Info(<<"l","i","g","h","t","s","e","a","g","r","e","e","n">>, CPAR_COLOR_MAKE(32, 178, 170, 255)),
       Info(<<"l","i","g","h","t","s","k","y","b","l","u","e">>, CPAR_COLOR_MAKE(135, 206, 250, 255)),
       Info(<<"l","i","g","h","t","s","l","a","t","e","g","r","a","y">>, CPAR_COLOR_MAKE(119, 136, 153, 255)),
       Info(<<"l","i","g","h","t","s","l","a","t","e","g","r","e","y">>, CPAR_COLOR_MAKE(119, 136, 153, 255)),
       Info(<<"l","i","g","h","t","s","t","e","e","l","b","l","u","e">>, CPAR_COLOR_MAKE(176, 196, 222, 255)),
       Info(<<"l","i","g","h","t","y","e","l","l","o","w">>, CPAR_COLOR_MAKE(255, 255, 224, 255)),
       Info(<<"l","i","m","e">>, CPAR_COLOR_MAKE(0, 255, 0, 255)),
       Info(<<"l","i","m","e","g","r","e","e","n">>, CPAR_COLOR_MAKE(50, 205, 50, 255)),
       Info(<<"l","i","n","e","n">>, CPAR_COLOR_MAKE(250, 240, 230, 255)),
       Info(<<"m","a","g","e","n","t","a">>, CPAR_COLOR_MAKE(255, 0, 255, 255)),
       Info(<<"m","a","r","o","o","n">>, CPAR_COLOR_MAKE(128, 0, 0, 255)),
       Info(<<"m","e","d","i","u","m","a","q","u","a","m","a","r","i","n","e">>, CPAR_COLOR_MAKE(102, 205, 170, 255)),
       Info(<<"m","e","d","i","u","m","b","l","u","e">>, CPAR_COLOR_MAKE(0, 0, 205, 255)),
       Info(<<"m","e","d","i","u","m","o","r","c","h","i","d">>, CPAR_COLOR_MAKE(186, 85, 211, 255)),
       Info(<<"m","e","d","i","u","m","p","u","r","p","l","e">>, CPAR_COLOR_MAKE(147, 112, 219, 255)),
       Info(<<"m","e","d","i","u","m","s","e","a","g","r","e","e","n">>, CPAR_COLOR_MAKE(60, 179, 113, 255)),
       Info(<<"m","e","d","i","u","m","s","l","a","t","e","b","l","u","e">>, CPAR_COLOR_MAKE(123, 104, 238, 255)),
       Info(<<"m","e","d","i","u","m","s","p","r","i","n","g","g","r","e","e","n">>, CPAR_COLOR_MAKE(0, 250, 154, 255)),
       Info(<<"m","e","d","i","u","m","t","u","r","q","u","o","i","s","e">>, CPAR_COLOR_MAKE(72, 209, 204, 255)),
       Info(<<"m","e","d","i","u","m","v","i","o","l","e","t","r","e","d">>, CPAR_COLOR_MAKE(199, 21, 133, 255)),
       Info(<<"m","i","d","n","i","g","h","t","b","l","u","e">>, CPAR_COLOR_MAKE(25, 25, 112, 255)),
       Info(<<"m","i","n","t","c","r","e","a","m">>, CPAR_COLOR_MAKE(245, 255, 250, 255)),
       Info(<<"m","i","s","t","y","r","o","s","e">>, CPAR_COLOR_MAKE(255, 228, 225, 255)),
       Info(<<"m","o","c","c","a","s","i","n">>, CPAR_COLOR_MAKE(255, 228, 181, 255)),
       Info(<<"n","a","v","a","j","o","w","h","i","t","e">>, CPAR_COLOR_MAKE(255, 222, 173, 255)),
       Info(<<"n","a","v","y">>, CPAR_COLOR_MAKE(0, 0, 128, 255)),
       Info(<<"o","l","d","l","a","c","e">>, CPAR_COLOR_MAKE(253, 245, 230, 255)),
       Info(<<"o","l","i","v","e">>, CPAR_COLOR_MAKE(128, 128, 0, 255)),
       Info(<<"o","l","i","v","e","d","r","a","b">>, CPAR_COLOR_MAKE(107, 142, 35, 255)),
       Info(<<"o","r","a","n","g","e">>, CPAR_COLOR_MAKE(255, 165, 0, 255)),
       Info(<<"o","r","a","n","g","e","r","e","d">>, CPAR_COLOR_MAKE(255, 69, 0, 255)),
       Info(<<"o","r","c","h","i","d">>, CPAR_COLOR_MAKE(218, 112, 214, 255)),
       Info(<<"p","a","l","e","g","o","l","d","e","n","r","o","d">>, CPAR_COLOR_MAKE(238, 232, 170, 255)),
       Info(<<"p","a","l","e","g","r","e","e","n">>, CPAR_COLOR_MAKE(152, 251, 152, 255)),
       Info(<<"p","a","l","e","t","u","r","q","u","o","i","s","e">>, CPAR_COLOR_MAKE(175, 238, 238, 255)),
       Info(<<"p","a","l","e","v","i","o","l","e","t","r","e","d">>, CPAR_COLOR_MAKE(219, 112, 147, 255)),
       Info(<<"p","a","p","a","y","a","w","h","i","p">>, CPAR_COLOR_MAKE(255, 239, 213, 255)),
       Info(<<"p","e","a","c","h","p","u","f","f">>, CPAR_COLOR_MAKE(255, 218, 185, 255)),
       Info(<<"p","e","r","u">>, CPAR_COLOR_MAKE(205, 133, 63, 255)),
       Info(<<"p","i","n","k">>, CPAR_COLOR_MAKE(255, 192, 203, 255)),
       Info(<<"p","l","u","m">>, CPAR_COLOR_MAKE(221, 160, 221, 255)),
       Info(<<"p","o","w","d","e","r","b","l","u","e">>, CPAR_COLOR_MAKE(176, 224, 230, 255)),
       Info(<<"p","u","r","p","l","e">>, CPAR_COLOR_MAKE(128, 0, 128, 255)),
       Info(<<"r","e","d">>, CPAR_COLOR_MAKE(255, 0, 0, 255)),
       Info(<<"r","o","s","y","b","r","o","w","n">>, CPAR_COLOR_MAKE(188, 143, 143, 255)),
       Info(<<"r","o","y","a","l","b","l","u","e">>, CPAR_COLOR_MAKE(65, 105, 225, 255)),
       Info(<<"s","a","d","d","l","e","b","r","o","w","n">>, CPAR_COLOR_MAKE(139, 69, 19, 255)),
       Info(<<"s","a","l","m","o","n">>, CPAR_COLOR_MAKE(250, 128, 114, 255)),
       Info(<<"s","a","n","d","y","b","r","o","w","n">>, CPAR_COLOR_MAKE(244, 164, 96, 255)),
       Info(<<"s","e","a","g","r","e","e","n">>, CPAR_COLOR_MAKE(46, 139, 87, 255)),
       Info(<<"s","e","a","s","h","e","l","l">>, CPAR_COLOR_MAKE(255, 245, 238, 255)),
       Info(<<"s","i","e","n","n","a">>, CPAR_COLOR_MAKE(160, 82, 45, 255)),
       Info(<<"s","i","l","v","e","r">>, CPAR_COLOR_MAKE(192, 192, 192, 255)),
       Info(<<"s","k","y","b","l","u","e">>, CPAR_COLOR_MAKE(135, 206, 235, 255)),
       Info(<<"s","l","a","t","e","b","l","u","e">>, CPAR_COLOR_MAKE(106, 90, 205, 255)),
       Info(<<"s","l","a","t","e","g","r","a","y">>, CPAR_COLOR_MAKE(112, 128, 144, 255)),
       Info(<<"s","l","a","t","e","g","r","e","y">>, CPAR_COLOR_MAKE(112, 128, 144, 255)),
       Info(<<"s","n","o","w">>, CPAR_COLOR_MAKE(255, 250, 250, 255)),
       Info(<<"s","p","r","i","n","g","g","r","e","e","n">>, CPAR_COLOR_MAKE(0, 255, 127, 255)),
       Info(<<"s","t","e","e","l","b","l","u","e">>, CPAR_COLOR_MAKE(70, 130, 180, 255)),
       Info(<<"t","a","n">>, CPAR_COLOR_MAKE(210, 180, 140, 255)),
       Info(<<"t","e","a","l">>, CPAR_COLOR_MAKE(0, 128, 128, 255)),
       Info(<<"t","h","i","s","t","l","e">>, CPAR_COLOR_MAKE(216, 191, 216, 255)),
       Info(<<"t","o","m","a","t","o">>, CPAR_COLOR_MAKE(255, 99, 71, 255)),
       Info(<<"t","u","r","q","u","o","i","s","e">>, CPAR_COLOR_MAKE(64, 224, 208, 255)),
       Info(<<"v","i","o","l","e","t">>, CPAR_COLOR_MAKE(238, 130, 238, 255)),
       Info(<<"w","h","e","a","t">>, CPAR_COLOR_MAKE(245, 222, 179, 255)),
       Info(<<"w","h","i","t","e">>, CPAR_COLOR_MAKE(255, 255, 255, 255)),
       Info(<<"w","h","i","t","e","s","m","o","k","e">>, CPAR_COLOR_MAKE(245, 245, 245, 255)),
       Info(<<"y","e","l","l","o","w">>, CPAR_COLOR_MAKE(255, 255, 0, 255)),
       Info(<<"y","e","l","l","o","w","g","r","e","e","n">>, CPAR_COLOR_MAKE(154, 205, 50, 255))
  >>

cpar_n_color_name_table == Len(cpar_color_name_table)

(***************************************************************************)
(* The two comparison functions given to bsearch, and the call of one      *)
(* through its pointer (here its name).                                    *)
(***************************************************************************)
RECURSIVE strcasecmp_from(_, _, _)
strcasecmp_from(s1, s2, i) ==
  IF i <= Len(s1) /\ i <= Len(s2)
  THEN LET r == Code[tolower(s1[i])] - Code[tolower(s2[i])]
       IN IF r # 0 THEN r ELSE strcasecmp_from(s1, s2, i + 1)
  ELSE (IF i <= Len(s1) THEN Code[tolower(s1[i])] ELSE 0)
       - (IF i <= Len(s2) THEN Code[tolower(s2[i])] ELSE 0)

\* A variant that compares only the first Len(s1) characters.
cpar_strcasecmp_prefix(s1, s2) ==
  strcasecmp_from(s1, IF Len(s2) > Len(s1) THEN SubSeq(s2, 1, Len(s1)) ELSE s2, 1)

cpar_strcasecmp(s1, s2) == strcasecmp_from(s1, s2, 1)

cpar_color_name_info_compare_name_info(p1, p2) == cpar_strcasecmp(p1, p2.name)

\* (long)p1 - p2->value, a long in -(2^32 - 1) .. 2^32 - 1, returned as
\* int: its low 32 bits as a signed number.  Computed on 16-bit halves;
\* the result is its sign.
cpar_color_name_info_compare_value(p1, p2) ==
  LET dlo == Lo16(p1) - Lo16(p2.value)
      borrow == IF dlo < 0 THEN 1 ELSE 0
      low == dlo % 65536
      high == (Hi16(p1) - Hi16(p2.value) - borrow) % 65536
  IN IF high >= 32768 THEN -1
     ELSE IF high = 0 /\ low = 0 THEN 0
     ELSE 1

CallCompar(compar, p1, p2) ==
  IF compar = "cpar_color_name_info_compare_name_info"
  THEN cpar_color_name_info_compare_name_info(p1, p2)
  ELSE cpar_color_name_info_compare_value(p1, p2)

(***************************************************************************)
(* bsearch(key, base, nmemb, size, compar): the binary search of the C     *)
(* libraries (glibc, musl and the BSDs probe the same elements: the middle *)
(* one of the remaining range, (l + u) / 2).  The result is the 1-based    *)
(* index of the element found, 0 for NULL.                                 *)
(***************************************************************************)
RECURSIVE bsearch_range(_, _, _, _, _)
bsearch_range(key, base, l, u, compar) ==
  IF l >= u THEN 0
  ELSE LET idx == (l + u) \div 2
           c == CallCompar(compar, key, base[idx + 1])
       IN IF c < 0 THEN bsearch_range(key, base, l, idx, compar)
          ELSE IF c > 0 THEN bsearch_range(key, base, idx + 1, u, compar)
          ELSE idx + 1

bsearch(key, base, nmemb, compar) == bsearch_range(key, base, 0, nmemb, compar)

\* The return for the element info that bsearch found (0: NULL).
FromNameReturn(info) ==
  IF info = 0
  THEN [status |-> CPAR_STATUS_NO_COLOR_NAME, result |-> << 0, 0, 0, 0 >>, info |-> 0]
  ELSE [status |-> CPAR_STATUS_OK,
        result |-> cpar_color_name_table[info].value,
        info |-> info]

cpar_color_from_name(color_str) ==
  FromNameReturn(bsearch(color_str, cpar_color_name_table, cpar_n_color_name_table,
                         "cpar_color_name_info_compare_name_info"))

LookupReturn(info) ==
  IF info = 0
  THEN [null |-> TRUE, name |-> << >>, info |-> 0]
  ELSE [null |-> FALSE, name |-> cpar_color_name_table[info].name, info |-> info]

cpar_lookup_color_name(value) ==
  LookupReturn(bsearch(value, cpar_color_name_table, cpar_n_color_name_table,
                       "cpar_color_name_info_compare_value"))

(***************************************************************************)
(* cpar_strerror.  The guard lets status = 7, one past the last of the     *)
(* seven strings, through to the read: past is what that read finds      *)
(* behind the table, NULL or some other pointer.                           *)
(***************************************************************************)
error_strings ==
  << "success",
     "invalid parameter",
     "color string too big",
     "numeric component failed to parse",
     "numeric component out-of-range",
     "syntax error",
     "no matching color name" >>

PastTable == {[null |-> TRUE, str |-> ""], [null |-> FALSE, str |-> "?"]}

\* (size_t)status: a negative status is a huge number.
cpar_strerror(status, past) ==
  IF status < 0 \/ status > Len(error_strings)
  THEN [null |-> TRUE, str |-> "", read |-> -1]
  ELSE IF status < Len(error_strings)
  THEN [null |-> FALSE, str |-> error_strings[status + 1], read |-> status]
  ELSE [null |-> past.null, str |-> past.str, read |-> status]

(***************************************************************************)
(* cpar_color_parse.                                                       *)
(***************************************************************************)
\* A variant of the copy loop that keeps the case of the letters.
RECURSIVE NormalizeKeepCase(_)
NormalizeKeepCase(s) ==
  IF s = << >> THEN << >>
  ELSE IF isspace(Head(s)) THEN NormalizeKeepCase(Tail(s))
  ELSE << Head(s) >> \o NormalizeKeepCase(Tail(s))

\* The loop that copies the non-whitespace of color_str, lower-cased.
RECURSIVE Normalize(_)
Normalize(s) ==
  IF s = << >> THEN << >>
  ELSE IF isspace(Head(s)) THEN Normalize(Tail(s))
  ELSE << tolower(Head(s)) >> \o Normalize(Tail(s))

\* strstr(start, prefix) == start
StartsWith(s, prefix) ==
  Len(s) >= Len(prefix) /\ SubSeq(s, 1, Len(prefix)) = prefix

\* A variant that does not double the digits of the 3-digit form.
HexPairsPlain(start) ==
  LET hex_len == Len(start)
  IN IF hex_len = 3
     THEN << << "0", start[1] >>, << "0", start[2] >>,
             << "0", start[3] >>, << "f", "f" >> >>
     ELSE IF hex_len = 6
     THEN << SubSeq(start, 1, 2), SubSeq(start, 3, 4), SubSeq(start, 5, 6),
             << "f", "f" >> >>
     ELSE << SubSeq(start, 1, 2), SubSeq(start, 3, 4), SubSeq(start, 5, 6),
             SubSeq(start, 7, 8) >>

\* The #... branch: start is the text after '#'.  The 2-character strings
\* rr, gg, bb, aa for hex_len 3, 6 and 8.
HexPairs(start) ==
  LET hex_len == Len(start)
  IN IF hex_len = 3
     THEN << << start[1], start[1] >>, << start[2], start[2] >>,
             << start[3], start[3] >>, << "f", "f" >> >>
     ELSE IF hex_len = 6
     THEN << SubSeq(start, 1, 2), SubSeq(start, 3, 4), SubSeq(start, 5, 6),
             << "f", "f" >> >>
     ELSE << SubSeq(start, 1, 2), SubSeq(start, 3, 4), SubSeq(start, 5, 6),
             SubSeq(start, 7, 8) >>

\* ch is <<r, g, b, a>>, written as the bytes parse, in this order; x are
\* the results of cpar_hex_byte_to_int on rr, gg, bb, aa.
HexBytes(hex_len, x, ch) ==
  IF hex_len \notin {3, 6, 8}
  THEN [status |-> CPAR_STATUS_SYNTAX_ERROR, ch |-> ch, errno |-> KeepErrno]
  ELSE IF x[1].status # CPAR_STATUS_OK
  THEN [status |-> x[1].status, ch |-> ch, errno |-> x[1].errno]
  ELSE IF x[2].status # CPAR_STATUS_OK
  THEN [status |-> x[2].status, ch |-> [ch EXCEPT ![1] = x[1].result],
        errno |-> ThenErrno(x[1].errno, x[2].errno)]
  ELSE IF x[3].status # CPAR_STATUS_OK
  THEN [status |-> x[3].status,
        ch |-> [ch EXCEPT ![1] = x[1].result, ![2] = x[2].result],
        errno |-> ThenErrno(x[2].errno, x[3].errno)]
  ELSE IF x[4].status # CPAR_STATUS_OK
  THEN [status |-> x[4].status,
        ch |-> << x[1].result, x[2].result, x[3].result, ch[4] >>,
        errno |-> ThenErrno(x[3].errno, x[4].errno)]
  ELSE [status |-> CPAR_STATUS_OK,
        ch |-> << x[1].result, x[2].result, x[3].result, x[4].result >>,
        errno |-> x[4].errno]

HexBranch(start, ch, impl) ==
  HexBytes(Len(start),
           [k \in 1..4 |-> cpar_hex_byte_to_int(HexPairs(start)[k], impl)], ch)

(***************************************************************************)
(* size_t, 64 bits wide, as four 16-bit limbs, the most significant first, *)
(* with the arithmetic of an unsigned type: a decrement of 0 gives         *)
(* SIZE_MAX, an increment of SIZE_MAX gives 0.                             *)
(***************************************************************************)
SizeT(n) == << 0, 0, 0, n >>

\* --x
SizeDec(x) ==
  IF x[4] > 0 THEN [x EXCEPT ![4] = @ - 1]
  ELSE IF x[3] > 0 THEN [x EXCEPT ![3] = @ - 1, ![4] = 65535]
  ELSE IF x[2] > 0 THEN [x EXCEPT ![2] = @ - 1, ![3] = 65535, ![4] = 65535]
  ELSE IF x[1] > 0 THEN << x[1] - 1, 65535, 65535, 65535 >>
  ELSE << 65535, 65535, 65535, 65535 >>

\* ++x
SizeInc(x) ==
  IF x[4] < 65535 THEN [x EXCEPT ![4] = @ + 1]
  ELSE IF x[3] < 65535 THEN [x EXCEPT ![3] = @ + 1, ![4] = 0]
  ELSE IF x[2] < 65535 THEN [x EXCEPT ![2] = @ + 1, ![3] = 0, ![4] = 0]
  ELSE IF x[1] < 65535 THEN << x[1] + 1, 0, 0, 0 >>
  ELSE << 0, 0, 0, 0 >>

\* x -= n and x += n for a small n.
RECURSIVE SizeSub(_, _)
SizeSub(x, n) == IF n = 0 THEN x ELSE SizeSub(SizeDec(x), n - 1)

RECURSIVE SizeAdd(_, _)
SizeAdd(x, n) == IF n = 0 THEN x ELSE SizeAdd(SizeInc(x), n - 1)

\* The rgb(... and rgba(... branches: buffer is the whole normalized text,
\* skip the length of the prefix, start is buffer + skip, and buffer_len
\* the counter after buffer_len -= skip and --buffer_len.  start[buffer_len]
\* is the byte at buffer + skip + buffer_len, the sum taken in the width of
\* a pointer: with nothing after the prefix buffer_len is SIZE_MAX and the
\* byte is the one before start, the '(' of the prefix.
FunctionClose(buffer, skip, buffer_len, n_comp, ch, impl) ==
  IF buffer[SizeAdd(buffer_len, skip)[4] + 1] # ")"
  THEN [status |-> CPAR_STATUS_SYNTAX_ERROR, ch |-> ch, errno |-> KeepErrno,
        buffer_len |-> buffer_len]
  ELSE cpar_parse_comma_components(SubSeq(buffer, skip + 1, skip + buffer_len[4]),
                                   n_comp, ch, impl)
       @@ [buffer_len |-> buffer_len]

FunctionBranch(buffer, skip, n_comp, ch, impl) ==
  FunctionClose(buffer, skip, SizeDec(SizeSub(SizeT(Len(buffer)), skip)),
                n_comp, ch, impl)

\* A variant that lets an input of exactly the buffer's length through.
TooBigAbove(color_str_len) == color_str_len > CPAR_COLOR_PARSE_BUFFER_LEN

\* color_str_len >= CPAR_COLOR_PARSE_BUFFER_LEN, on the length of the input
\* as given.
TooBig(color_str_len) == color_str_len >= CPAR_COLOR_PARSE_BUFFER_LEN

\* Everything up to the store through result: the status, the local
\* channels r, g, b, a (or the table's value), and the branch taken.
NameBranch(n, buffer_len) ==
  [status |-> n.status, ch |-> n.result, branch |-> "name", errno |-> KeepErrno,
   buffer_len |-> buffer_len]

\* A variant that looks a text up as a name although it starts with '#'.
DispatchHashAsName(buffer, ch0, impl) ==
  IF StartsWith(buffer, << "r", "g", "b", "(" >>)
  THEN FunctionBranch(buffer, 4, 3, ch0, impl) @@ [branch |-> "rgb"]
  ELSE IF StartsWith(buffer, << "r", "g", "b", "a", "(" >>)
  THEN FunctionBranch(buffer, 5, 4, ch0, impl) @@ [branch |-> "rgba"]
  ELSE NameBranch(cpar_color_from_name(buffer), SizeT(Len(buffer)))

Dispatch(buffer, ch0, impl) ==
  IF buffer # << >> /\ buffer[1] = "#"
  THEN HexBranch(Tail(buffer), ch0, impl)
       @@ [branch |-> "hex", buffer_len |-> SizeT(Len(buffer))]
  ELSE IF StartsWith(buffer, << "r", "g", "b", "(" >>)
  THEN FunctionBranch(buffer, 4, 3, ch0, impl) @@ [branch |-> "rgb"]
  ELSE IF StartsWith(buffer, << "r", "g", "b", "a", "(" >>)
  THEN FunctionBranch(buffer, 5, 4, ch0, impl) @@ [branch |-> "rgba"]
  ELSE NameBranch(cpar_color_from_name(buffer), SizeT(Len(buffer)))

\* A variant that also rejects a string of whitespace only.
BadParameterBlank(color_str) ==
  color_str.null \/ \A i \in 1..Len(color_str.s) : isspace(color_str.s[i])

\* !color_str || !*color_str
BadParameter(color_str) == color_str.null \/ color_str.s = << >>

ParseBody(color_str, impl) ==
  IF BadParameter(color_str)
  THEN [status |-> CPAR_STATUS_INVALID_PARAMETER, ch |-> << 0, 0, 0, 255 >>,
        branch |-> "none", errno |-> KeepErrno, buffer_len |-> SizeT(0)]
  ELSE IF TooBig(Len(color_str.s))
  THEN [status |-> CPAR_STATUS_TOO_BIG, ch |-> << 0, 0, 0, 255 >>, branch |-> "none",
        errno |-> KeepErrno, buffer_len |-> SizeT(0)]
  ELSE Dispatch(Normalize(color_str.s), << 0, 0, 0, 255 >>, impl)

\* A variant that stores the channels parsed so far whatever the status.
StoreResultAlways(result, status, ch) ==
  IF ~result.null
  THEN [result EXCEPT !.v = CPAR_COLOR_MAKE(ch[1], ch[2], ch[3], ch[4])]
  ELSE result

\* if (result) *result = ...; only on the paths that return OK.
StoreResult(result, status, ch) ==
  IF status = CPAR_STATUS_OK /\ ~result.null
  THEN [result EXCEPT !.v = CPAR_COLOR_MAKE(ch[1], ch[2], ch[3], ch[4])]
  ELSE result

\* The return of cpar_color_parse after its body o.
ParseReturn(o, result) ==
  [status |-> o.status,
   result |-> StoreResult(result, o.status, o.ch),
   branch |-> o.branch,
   errno |-> o.errno,
   buffer_len |-> o.buffer_len]

cpar_color_parse(color_str, result, impl) ==
  ParseReturn(ParseBody(color_str, impl), result)

(***************************************************************************)
(* cpar::to_string: snprintf(buf, 10, "#%02x%02x%02x%02x", ...).  The      *)
(* nine characters and the NUL fill buf exactly.                           *)
(***************************************************************************)
LowerHex ==
  << "0", "1", "2", "3", "4", "5", "6", "7", "8", "9", "a", "b", "c", "d", "e", "f" >>

\* A variant that prints a byte as %x, without the leading zero.
ByteHexNoPad(b) ==
  IF b < 16 THEN << LowerHex[b + 1] >>
  ELSE << LowerHex[(b \div 16) + 1], LowerHex[(b % 16) + 1] >>

\* %02x of a uint8_t.
ByteHex(b) == << LowerHex[(b \div 16) + 1], LowerHex[(b % 16) + 1] >>

to_string(c) ==
  << "#" >> \o ByteHex(CPAR_COLOR_RED(c)) \o ByteHex(CPAR_COLOR_GREEN(c))
  \o ByteHex(CPAR_COLOR_BLUE(c)) \o ByteHex(CPAR_COLOR_ALPHA(c))

(***************************************************************************)
(* The inputs of the model.                                                *)
(***************************************************************************)
MaxHexLen == 9
MaxTokens == 5
MaxOver == 2
ExtraStatus == 2
MaxNumber == 260

Str(s) == [null |-> FALSE, s |-> s]
NullStr == [null |-> TRUE, s |-> << >>]

Repeat(c, n) == [i \in 1..n |-> c]

toupper(c) ==
  IF Code[c] >= 97 /\ Code[c] <= 122 THEN Printable[Code[c] - 32 - 31] ELSE c

Upper(s) == [i \in 1..Len(s) |-> toupper(s[i])]

RECURSIVE Join(_)
Join(l) ==
  IF l = << >> THEN << >>
  ELSE IF Len(l) = 1 THEN l[1]
  ELSE l[1] \o << "," >> \o Join(Tail(l))

\* '#' and up to MaxHexLen hexadecimal digits.
HexAlphabet == {"0", "f"}

HexInputs ==
  { << "#" >> \o d : d \in UNION {[1..n -> HexAlphabet] : n \in 0..MaxHexLen} }

\* rgb(...) and rgba(...) of up to MaxTokens tokens: a plain number, a
\* fraction, a percentage, a number out of range.
TokenSet ==
  { << "1" >>, << "0", ".", "5" >>, << "5", "0", "%" >>, << "2", "5", "6" >> }

TokenLists == UNION {[1..n -> TokenSet] : n \in 0..MaxTokens}

FunctionInputs ==
  { prefix \o Join(l) \o << ")" >> :
      prefix \in {<< "r", "g", "b", "(" >>, << "r", "g", "b", "a", "(" >>},
      l \in TokenLists }

\* rgb(...) with each number of 0..MaxNumber as a component, plain and as
\* a percentage.
RECURSIVE Dec(_)
Dec(n) ==
  IF n < 10 THEN << LowerHex[n + 1] >>
  ELSE Dec(n \div 10) \o << LowerHex[(n % 10) + 1] >>

NumberInputs ==
  { << "r", "g", "b", "(", "0", "," >> \o Dec(n) \o << ",", "0", ")" >> :
      n \in 0..MaxNumber }
  \cup
  { << "r", "g", "b", "(" >> \o Dec(n) \o << "%", ",", "0", ",", "0", ")" >> :
      n \in 0..MaxNumber }

\* What to_string prints for the values of the table, as printed and in
\* upper case, opaque and half transparent.
RenderedInputs ==
  LET values == UNION { { cpar_color_name_table[i].value,
                          [cpar_color_name_table[i].value EXCEPT ![4] = 127] } :
                        i \in 1..cpar_n_color_name_table }
  IN {to_string(v) : v \in values} \cup {Upper(to_string(v)) : v \in values}

\* Every name of the table, in lower and in upper case.
TableNames == {cpar_color_name_table[i].name : i \in 1..cpar_n_color_name_table}

NameInputs == TableNames \cup {Upper(n) : n \in TableNames}

\* Inputs of 62 to 64 + MaxOver bytes: a short text and spaces around it,
\* and the text of the oversized-input test, '#' and 67 times 'f'.
PadBases ==
  { << "#", "f", "f", "f" >>, << "r", "e", "d" >>, << " " >>,
    << "r", "g", "b", "(", "1", ",", "2", ",", "3", ")" >>,
    << "r", "g", "b", "a", "(", "1", ",", "2", ",", "3", ",", "1", ")" >>,
    << "n", "o", "n", "e" >> }

PaddedInputs ==
  { b \o Repeat(" ", n - Len(b)) :
      b \in PadBases,
      n \in (CPAR_COLOR_PARSE_BUFFER_LEN - 2)..(CPAR_COLOR_PARSE_BUFFER_LEN + MaxOver) }
  \cup
  { Repeat(" ", n - Len(b)) \o b :
      b \in PadBases,
      n \in (CPAR_COLOR_PARSE_BUFFER_LEN - 2)..(CPAR_COLOR_PARSE_BUFFER_LEN + MaxOver) }
  \cup
  { << "#" >> \o Repeat("f", n) :
      n \in (CPAR_COLOR_PARSE_BUFFER_LEN - 3)..(CPAR_COLOR_PARSE_BUFFER_LEN + MaxOver + 1) }

\* The strings of the tests (src/test.cpp, src/unnamed/part_000) and of the
\* documentation, and malformed variants of them.
Corpus ==
  {
    << "#", "0", "0", "0" >>,
    << "#", "f", "f", "f" >>,
    << "#", "f", "0", "f" >>,
    << "#", "0", "f", "0" >>,
    << "#", "0", "z", "0" >>,
    << "#", "f" >>,
    << "#", "0", "0", "0", "0", "0", "0" >>,
    << "#", "f", "f", "0", "0", "0", "0" >>,
    << "#", "0", "0", "f", "f", "0", "0" >>,
    << "#", "0", "0", "0", "0", "f", "f" >>,
    << "#", "f", "f", "0", "0", "f", "f" >>,
    << "#", "0", "0", "z", "z", "0", "0" >>,
    << "#", "0", "0", "0", "0", "0", "0", "0", "0" >>,
    << "#", "0", "0", "0", "0", "0", "0", "f", "f" >>,
    << "#", "f", "f", "f", "f", "f", "f", "f", "f" >>,
    << "#", "f", "f", "f", "f", "f", "f", "0", "0" >>,
    << "#", "f", "f", "0", "0", "0", "0", "0", "0" >>,
    << "#", "0", "0", "f", "f", "0", "0", "0", "0" >>,
    << "#", "0", "0", "0", "0", "f", "f", "0", "0" >>,
    << "#", "f", "f", "0", "0", "f", "f", "0", "0" >>,
    << "#", "f", "f", "0", "0", "f", "f", "7", "f" >>,
    << "#", "F", "F", "F", "F", "F", "F" >>,
    << "#", "0", "0", "F", "f", "0", "0" >>,
    << "#", "F", "f", "F", "f", "F", "f" >>,
    << "#", "a", "a", "Z", "Z", "b", "b" >>,
    << "#", "a", "b", "c" >>,
    << "#", "a", "a", "b", "b", "c", "c" >>,
    << "#", "a", "a", "b", "b", "c", "c", "f", "f" >>,
    << "#", "f", "0", "0" >>,
    << "#", "f", "f", "0", "0", "0", "0", "f", "f" >>,
    << "#", " ", "f", " ", "f", " ", "f" >>,
    << "#" >>,
    << "#", "+", "f", "+", "f", "+", "f" >>,
    << "#", "0", "x", "0", "x", "0", "x" >>,
    << "r", "g", "b", "(", "0", ",", "0", ",", "0", ")" >>,
    << "r", "g", "b", "(", "2", "5", "5", ",", "2", "5", "5", ",", "2", "5", "5", ")" >>,
    << "r", "g", "b", "(", "2", "5", "5", ",", "0", ",", "2", "5", "5", ")" >>,
    << "r", "g", "b", "(", "2", "5", "5", ",", "0", ",", "0", ")" >>,
    << "r", "g", "b", "(", "2", "5", "5", ",", "2", "5", "5", ",", "0", ")" >>,
    << "r", "g", "b", "(", "0", ",", "2", "5", "5", ",", "0", ")" >>,
    << "r", "g", "b", "(", "0", ",", "2", "5", "5", ",", "2", "5", "5", ")" >>,
    << "r", "g", "b", "(", "0", ",", "0", ",", "2", "5", "5", ")" >>,
    << "r", "g", "b", "(", "1", "2", "7", ",", "1", "2", "7", ",", "1", "2", "7", ",", "2", "5", "5", ")" >>,
    << "r", "g", "b", " ", "(", " ", "1", ",", " ", "2", ",", " ", "3", " ", ")" >>,
    << "r", "g", "b", "(", " ", "1", " ", ",", " ", "2", ",", " ", "3", " ", ")" >>,
    << "r", "g", "b", "(", "1", ",", "2", ",", "3", ")" >>,
    << "R", "G", "B", "(", "1", ",", "2", ",", "3", ")" >>,
    << "r", "g", "b", "(", "5", "0", "%", ",", " ", "1", "0", "0", " ", " ", "%", ",", " ", "1", "2", "7", ")" >>,
    << "r", "g", "b", "(", "5", "0", "%", ",", "1", "0", "0", "%", ",", "0", "%", ")" >>,
    << "r", "g", "b", "(", "1", "0", "0", "%", ",", "1", "0", "0", "%", ",", "1", "0", "0", "%", ")" >>,
    << "r", "g", "b", "(", "1", "0", "0", "%", ",", " ", "0", ",", " ", "0", ")" >>,
    << "r", "g", "b", "(", "0", ",", " ", "5", "0", "%", ",", "1", "0", "0", " ", "%", ")" >>,
    << "r", "g", "b", "(", "2", "5", "6", ",", "2", "5", "6", ",", "2", "5", "6", ",", "1", ")" >>,
    << "r", "g", "b", "(", "1", ",", " ", "2", ",", " ", "h", "e", "l", "l", "o", ")" >>,
    << "r", "g", "b", "(", "1", ",", "2", ")" >>,
    << "r", "g", "b", "(", "2", "5", "6", ",", "0", ",", "0", ")" >>,
    << "r", "g", "b", "(" >>,
    << "r", "g", "b", "(", ")" >>,
    << "r", "g", "b", "(", "1", ",", "2", ",", "3" >>,
    << "r", "g", "b", "(", "2", "5", "6", ",", "0", ",", "0" >>,
    << "r", "g", "b", "(", "1", ",", "2", ",", "h", "e", "l", "l", "o" >>,
    << "r", "g", "b", "a", "(", "1", ",", "2", ",", "3", ",", "1", ".", "2" >>,
    << "r", "g", "b", "(", "h", "e", "l", "l", "o", ",", "2", "5", "6", ")" >>,
    << "r", "g", "b", "(", "2", "5", "6", ",", "h", "e", "l", "l", "o", ")" >>,
    << "r", "g", "b", "(", "1", ",", "2", "5", "6", ")" >>,
    << "r", "g", "b", "a", "(", "1", ",", "2", ",", "3", ",", "1", ".", "2", ",", "x", ")" >>,
    << "r", "g", "b", "(", ",", "1", ",", "2", ",", "3", ")" >>,
    << "r", "g", "b", "(", "1", ",", "2", ",", "3", ",", ")" >>,
    << "r", "g", "b", "(", "1", ",", ",", "2", ",", "3", ")" >>,
    << "r", "g", "b", "(", "%", ",", "1", ",", "2", ")" >>,
    << "r", "g", "b", "(", "2", "0", "0", "%", ",", "0", ",", "0", ")" >>,
    << "r", "g", "b", "(", "-", "1", ",", "0", ",", "0", ")" >>,
    << "r", "g", "b", "(", "9", "9", "9", "9", "9", "9", "9", "9", "9", "9", "9", "9", "9", "9", "9", "9", "9", "9", "9", "9", ",", "0", ",", "0", ")" >>,
    << "r", "g", "b", "(", "1", ",", "2", ",", "3", ",", "4", ")" >>,
    << "r", "g", "b", "(", "1", ",", "2", ",", "3", ",", "h", "e", "l", "l", "o", ")" >>,
    << "r", "g", "b", "(", "1", ",", "2", ",", "3", ",", "4", ",", "5", ")" >>,
    << "r", "g", "b", "a", "(", "5", "0", " ", "%", ",", " ", "2", "5", "5", ",", " ", "1", "0", "0", "%", ",", " ", "0", ".", "5", ")" >>,
    << "r", "g", "b", "a", "(", "2", "5", "5", ",", "0", ",", "0", ",", "1", ")" >>,
    << "r", "g", "b", "a", "(", "0", ",", "0", ",", "0", ",", "0", ".", "5", ")" >>,
    << "r", "g", "b", "a", "(", "0", ",", "0", ",", "0", ",", "0", ")" >>,
    << "r", "g", "b", "a", "(", "1", ",", "2", ",", "3", ",", "1", ".", "2", ")" >>,
    << "r", "g", "b", "a", "(", "1", ",", "2", ",", "3", ",", "-", "0", ".", "5", ")" >>,
    << "r", "g", "b", "a", "(", "1", ",", "2", ",", "3", ",", "x", ")" >>,
    << "r", "g", "b", "a", "(" >>,
    << "r", "g", "b", "a", "(", ")" >>,
    << "r", "g", "b", "a", "(", "1", ",", "2", ",", "3", ")" >>,
    << "r", "g", "b", "a", "(", "1", ",", "2", ",", "3", ",", "1" >>,
    << "r", "g", "b", "a", "(", "1", ",", "2", ",", "3", ",", "1", ",", "1", ")" >>,
    << "r", "g", "b", "a", "(", "1", ",", "2", ",", "3", ",", "0", ".", "2", "5", ",", "h", "e", "l", "l", "o", ")" >>,
    << "r", "g", "b", "a", "(", "1", "0", ",", "2", "0", ",", "3", "0", ",", "1", ".", "0", ")" >>,
    << "r", "e", "d" >>,
    << "R", "e", "d" >>,
    << "R", "E", "D" >>,
    << "r", " ", "e", " ", "d" >>,
    << " ", "r", "e", "d", " " >>,
    << "M", "e", "d", "i", "u", "m", "O", "r", "c", "h", "i", "d" >>,
    << "l", "i", "g", "h", "t", "s", "e", "a", "g", "r", "e", "e", "n" >>,
    << "N", "O", "T", "_", "A", "_", "R", "E", "A", "L", "_", "C", "O", "L", "O", "R" >>,
    << "A", "q", "u", "a" >>,
    << "C", "Y", "A", "N" >>,
    << "a", "q", "u", "a", "m", "a", "r", "i", "n", "E" >>,
    << "b", "l", "a", "c" >>,
    << "b", "l", "a", "c", "k", "k" >>,
    << "r", "g", "b" >>,
    << "r", "g", "b", "a" >>,
    << " " >>,
    << " ", " ", " " >>,
    << "\t" >>
  }

ParseInputs ==
  {NullStr, Str(<< >>)}
  \cup {Str(s) : s \in HexInputs \cup FunctionInputs \cup NumberInputs
                       \cup RenderedInputs \cup NameInputs
                       \cup PaddedInputs \cup Corpus}

\* errno before the call: 0, or a value left by something earlier.
EntryErrnos == {0, EDOM}

\* The caller's result: NULL, or a slot that holds some earlier value
\* (0x000000ff, as the C++ wrapper initializes it, or 0xdeadbeef).
Slots ==
  { [null |-> TRUE, v |-> << 0, 0, 0, 0 >>],
    [null |-> FALSE, v |-> << 0, 0, 0, 255 >>],
    [null |-> FALSE, v |-> << 222, 173, 190, 239 >> ] }

NoSlot == [null |-> TRUE, v |-> << 0, 0, 0, 0 >>]

\* Arguments of cpar_lookup_color_name: the values of the table and values
\* beside them.
TableValues == {cpar_color_name_table[i].value : i \in 1..cpar_n_color_name_table}

LookupValues ==
  TableValues
  \cup {[v EXCEPT ![4] = 254] : v \in TableValues}
  \cup {[v EXCEPT ![1] = 255 - v[1]] : v \in TableValues}
  \cup {<< 0, 0, 0, 0 >>, << 255, 0, 0, 0 >>, << 222, 173, 190, 239 >>}

\* Arguments of cpar_strerror: the seven codes and ExtraStatus beyond them
\* on each side.
StatusArgs == (0 - ExtraStatus)..(CPAR_STATUS_NO_COLOR_NAME + ExtraStatus)

(***************************************************************************)
(* The state: one call of the library, from its arguments to its return.   *)
(*   pc        - "call_parse", "call_lookup", "call_strerror" before the   *)
(*               call; "parsed", "looked_up", "described" after it         *)
(*   color_str, result - the arguments of cpar_color_parse; result is the  *)
(*               caller's slot, NULL or holding a value                    *)
(*   status    - the status cpar_color_parse returned (-1: none yet)       *)
(*   branch    - the syntax branch cpar_color_parse took                   *)
(*   value, name - the argument and the return of cpar_lookup_color_name   *)
(*   errcode, errstr - the argument and the return of cpar_strerror        *)
(*   text      - what cpar::to_string returned for the parsed colour       *)
(*   errno     - the caller's errno                                        *)
(*   buffer_len - the local buffer_len of cpar_color_parse at its return   *)
(***************************************************************************)
VARIABLES pc, color_str, result, status, branch, value, name, errcode, errstr,
          text, errno, buffer_len

svars == << pc, color_str, result, status, branch, value, name, errcode, errstr,
           text, errno, buffer_len >>

(***************************************************************************)
(* The state of two threads that each call cpar_color_parse once, at the   *)
(* same time.  What they share is the one static save pointer of strtok    *)
(* (olds) and, through it, each other's stack buffers.                     *)
(*   t_in      - the thread's color_str                                    *)
(*   t_pc      - "start"; "loop" inside cpar_parse_comma_components;       *)
(*               "done" after the return                                   *)
(*   t_buf     - the thread's buffer from start on (the text between the   *)
(*               parentheses), with the NULs written into it               *)
(*   t_tok     - the local tok, a pointer [th, idx] into a thread's buffer *)
(*   t_i, t_n  - the locals i and n_comp                                   *)
(*   t_ch      - the locals r, g, b, a                                     *)
(*   t_status, t_result - the returned status and the thread's own slot    *)
(*   olds      - strtok's static save pointer                              *)
(***************************************************************************)
VARIABLES t_in, t_pc, t_buf, t_tok, t_i, t_n, t_ch, t_status, t_result, olds

cvars == << t_in, t_pc, t_buf, t_tok, t_i, t_n, t_ch, t_status, t_result, olds >>

vars == << svars, cvars >>

Threads == {1, 2}

NullPtr == [th |-> 0, idx |-> 0]

Ptr(th, idx) == IF idx = 0 THEN NullPtr ELSE [th |-> th, idx |-> idx]

ThreadSlot == [null |-> FALSE, v |-> << 222, 173, 190, 239 >>]

NoName == [null |-> TRUE, name |-> << >>, info |-> 0]
NoErrstr == [null |-> TRUE, str |-> "", read |-> -1]

\* No thread runs.
NoThreads ==
  /\ t_in = [t \in Threads |-> NullStr]
  /\ t_pc = [t \in Threads |-> "done"]
  /\ t_buf = [t \in Threads |-> << NUL >>]
  /\ t_tok = [t \in Threads |-> NullPtr]
  /\ t_i = [t \in Threads |-> 0]
  /\ t_n = [t \in Threads |-> 0]
  /\ t_ch = [t \in Threads |-> << 0, 0, 0, 255 >>]
  /\ t_status = [t \in Threads |-> -1]
  /\ t_result = [t \in Threads |-> ThreadSlot]
  /\ olds = NullPtr

Init ==
  /\ status = -1
  /\ text = NullStr
  /\ branch = "none"
  /\ name = NoName
  /\ errstr = NoErrstr
  /\ buffer_len = SizeT(0)
  /\ \/ /\ pc = "call_parse"
        /\ color_str \in ParseInputs
        /\ result \in Slots
        /\ errno \in EntryErrnos
        /\ value = << 0, 0, 0, 0 >>
        /\ errcode = 0
     \/ /\ pc = "call_lookup"
        /\ value \in LookupValues
        /\ color_str = NullStr
        /\ result = NoSlot
        /\ errno = 0
        /\ errcode = 0
     \/ /\ pc = "call_strerror"
        /\ errcode \in StatusArgs
        /\ color_str = NullStr
        /\ result = NoSlot
        /\ errno = 0
        /\ value = << 0, 0, 0, 0 >>
  /\ NoThreads

\* status = cpar_color_parse(color_str, &result)
Parse ==
  /\ pc = "call_parse"
  /\ \E impl \in Impls :
       \E r \in {cpar_color_parse(color_str, result, impl)} :
          /\ status' = r.status
          /\ result' = r.result
          /\ branch' = r.branch
          /\ errno' = r.errno[errno]
          /\ buffer_len' = r.buffer_len
  /\ pc' = "parsed"
  /\ UNCHANGED << color_str, value, name, errcode, errstr, text, cvars >>

\* name = cpar_lookup_color_name(value)
LookupColorName ==
  /\ pc = "call_lookup"
  /\ name' = cpar_lookup_color_name(value)
  /\ pc' = "looked_up"
  /\ UNCHANGED << color_str, result, status, branch, value, errcode, errstr, text,
                  errno, buffer_len, cvars >>

\* errstr = cpar_strerror(errcode)
Strerror ==
  /\ pc = "call_strerror"
  /\ \E past \in PastTable : errstr' = cpar_strerror(errcode, past)
  /\ pc' = "described"
  /\ UNCHANGED << color_str, result, status, branch, value, name, errcode, text,
                  errno, buffer_len, cvars >>

\* The C++ wrapper color(std::string const &): on a failed parse it throws
\* error{status, cpar_strerror(status)}.
ThrowError ==
  /\ pc = "parsed"
  /\ status # CPAR_STATUS_OK
  /\ errcode' = status
  /\ \E past \in PastTable : errstr' = cpar_strerror(status, past)
  /\ pc' = "described"
  /\ UNCHANGED << color_str, result, status, branch, value, name, text, errno,
                  buffer_len, cvars >>

\* text = cpar::to_string(c) for the cpar::color c that the C++ wrapper
\* constructed from the string.
CallToString ==
  /\ pc = "parsed"
  /\ status = CPAR_STATUS_OK
  /\ ~result.null
  /\ text' = Str(to_string(result.v))
  /\ pc' = "rendered"
  /\ UNCHANGED << color_str, result, status, branch, value, name, errcode, errstr,
                  errno, buffer_len, cvars >>

Next == Parse \/ LookupColorName \/ Strerror \/ ThrowError \/ CallToString

Spec == Init /\ [][Next]_vars

(***************************************************************************)
(* Two concurrent calls.  A step is one access to what the threads share,  *)
(* with the thread-local code before it: the scheduler may interleave the  *)
(* threads at least this finely.                                           *)
(***************************************************************************)
ThreadInputs ==
  { << "r", "g", "b", "(", "1", ",", "2", ",", "3", ")" >>,
    << "r", "g", "b", "(", "4", ",", "5", ",", "6", ")" >>,
    << "r", "g", "b", "(", "5", "0", "%", ",", "0", ",", "2", "5", "5", ")" >>,
    << "r", "g", "b", "(", "1", ",", "2", ")" >>,
    << "r", "g", "b", "a", "(", "1", ",", "2", ",", "3", ",", "1", ")" >>,
    << "r", "g", "b", "a", "(", "2", "5", "6", ",", "0", ",", "0", ",", "0", ")" >>,
    << "#", "f", "f", "f" >>,
    << "r", "e", "d" >> }

InitThreads ==
  /\ pc = "threads"
  /\ color_str = NullStr
  /\ result = NoSlot
  /\ status = -1
  /\ branch = "none"
  /\ value = << 0, 0, 0, 0 >>
  /\ name = NoName
  /\ errcode = 0
  /\ errstr = NoErrstr
  /\ text = NullStr
  /\ errno = 0
  /\ buffer_len = SizeT(0)
  /\ t_in \in [Threads -> {Str(s) : s \in ThreadInputs}]
  /\ t_pc = [t \in Threads |-> "start"]
  /\ t_buf = [t \in Threads |-> << NUL >>]
  /\ t_tok = [t \in Threads |-> NullPtr]
  /\ t_i = [t \in Threads |-> 0]
  /\ t_n = [t \in Threads |-> 0]
  /\ t_ch = [t \in Threads |-> << 0, 0, 0, 255 >>]
  /\ t_status = [t \in Threads |-> -1]
  /\ t_result = [t \in Threads |-> ThreadSlot]
  /\ olds = NullPtr

\* The frame of a call that has returned is dead: a thread that still reads
\* it through tok or olds finds its bytes as they were left, or overwritten
\* (here: zeroed).
MemoryViews(t) ==
  { m \in [Threads -> UNION {{t_buf[u], Repeat(NUL, Len(t_buf[u]))} : u \in Threads}] :
      \A u \in Threads :
        \/ m[u] = t_buf[u]
        \/ u # t /\ t_pc[u] = "done" /\ m[u] = Repeat(NUL, Len(t_buf[u])) }

\* From the entry of cpar_color_parse to its return, or, on the branches
\* rgb( and rgba( with the closing parenthesis in place, to the return of
\* the first strtok(str, ",") in cpar_parse_comma_components.
T_Begin(t) ==
  /\ t_pc[t] = "start"
  /\ \E impl \in Impls :
     \E o \in {ParseBody(t_in[t], impl)} :
     \E buffer \in {Normalize(t_in[t].s)} :
       IF o.branch \in {"rgb", "rgba"} /\ buffer[Len(buffer)] = ")"
       THEN \E skip \in {IF o.branch = "rgb" THEN 4 ELSE 5} :
            \E first \in {strtok_r(SubSeq(buffer, skip + 1, Len(buffer) - 1)
                                   \o << NUL >>, 1)} :
              /\ t_buf' = [t_buf EXCEPT ![t] = first.buf]
              /\ olds' = [th |-> t, idx |-> first.save]
              /\ t_tok' = [t_tok EXCEPT ![t] = Ptr(t, first.tok)]
              /\ t_n' = [t_n EXCEPT ![t] = IF o.branch = "rgb" THEN 3 ELSE 4]
              /\ t_pc' = [t_pc EXCEPT ![t] = "loop"]
              /\ UNCHANGED << t_status, t_result >>
       ELSE /\ t_status' = [t_status EXCEPT ![t] = o.status]
            /\ t_result' = [t_result EXCEPT ![t] = StoreResult(@, o.status, o.ch)]
            /\ t_pc' = [t_pc EXCEPT ![t] = "done"]
            /\ UNCHANGED << t_buf, olds, t_tok, t_n >>
  /\ UNCHANGED << t_in, t_i, t_ch, svars >>

\* One turn of the loop: the component parser on tok, then i++ and
\* tok = strtok(NULL, ","), which continues from olds, wherever it points.
T_Iter(t) ==
  /\ t_pc[t] = "loop"
  /\ t_tok[t] # NullPtr
  /\ t_i[t] < t_n[t]
  /\ \E impl \in Impls, mem \in MemoryViews(t) :
     \E tok \in {t_tok[t]} :
     \E c \in {ParseComponent(CStr(mem[tok.th], tok.idx), t_i[t], t_ch[t], impl)} :
     \E mem1 \in {[mem EXCEPT ![tok.th] = StripPercent(@, tok.idx, c.percent)]} :
       IF c.status # CPAR_STATUS_OK
       THEN /\ t_status' = [t_status EXCEPT ![t] = c.status]
            /\ t_pc' = [t_pc EXCEPT ![t] = "done"]
            /\ t_buf' = mem1
            /\ UNCHANGED << olds, t_tok, t_i, t_ch >>
       ELSE \E next \in {strtok_r(mem1[olds.th], olds.idx)} :
              /\ t_buf' = [mem1 EXCEPT ![olds.th] = next.buf]
              /\ olds' = [th |-> olds.th, idx |-> next.save]
              /\ t_tok' = [t_tok EXCEPT ![t] = Ptr(olds.th, next.tok)]
              /\ t_i' = [t_i EXCEPT ![t] = @ + 1]
              /\ t_ch' = [t_ch EXCEPT ![t] = c.ch]
              /\ UNCHANGED << t_status, t_pc >>
  /\ UNCHANGED << t_in, t_n, t_result, svars >>

\* After the loop: the count check, the store through result, the return.
T_Return(t) ==
  /\ t_pc[t] = "loop"
  /\ ~(t_tok[t] # NullPtr /\ t_i[t] < t_n[t])
  /\ \E st \in {CountStatus(t_i[t], t_n[t])} :
       /\ t_status' = [t_status EXCEPT ![t] = st]
       /\ t_result' = [t_result EXCEPT ![t] = StoreResult(@, st, t_ch[t])]
  /\ t_pc' = [t_pc EXCEPT ![t] = "done"]
  /\ UNCHANGED << t_in, t_buf, t_tok, t_i, t_n, t_ch, olds, svars >>

NextThreads == \E t \in Threads : T_Begin(t) \/ T_Iter(t) \/ T_Return(t)

SpecThreads == InitThreads /\ [][NextThreads]_vars

(***************************************************************************)
(* Properties.                                                             *)
(***************************************************************************)
Parsed == pc = "parsed"

Input(s) == color_str = Str(s)

\* The input as the parser sees it after its normalization loop.
Normalized == Normalize(color_str.s)

RED == << 255, 0, 0, 255 >>

\* C1: cpar_color_parse writes the caller's slot only when it returns OK:
\* across a call that returns any failure status the slot keeps the value
\* it had before the call.
C1_SlotWrittenOnlyOnOK ==
  [][(pc = "call_parse" /\ status' # CPAR_STATUS_OK) => result' = result]_vars

\* A call that failed on its third component, after two had parsed, into a
\* slot that holds a value.
C1_Witness ==
  /\ Parsed
  /\ Input(<< "r", "g", "b", "(", "1", ",", " ", "2", ",", " ", "h", "e", "l", "l", "o", ")" >>)
  /\ status = CPAR_STATUS_INVALID_NUMBER
  /\ result = [null |-> FALSE, v |-> << 222, 173, 190, 239 >>]

\* C2: #f00, #ff0000, #ff0000ff, rgb(255,0,0), rgba(255,0,0,1) and red
\* each parse with status OK to the same value, 0xff0000ff.
SixReds ==
  { << "#", "f", "0", "0" >>,
    << "#", "f", "f", "0", "0", "0", "0" >>,
    << "#", "f", "f", "0", "0", "0", "0", "f", "f" >>,
    << "r", "g", "b", "(", "2", "5", "5", ",", "0", ",", "0", ")" >>,
    << "r", "g", "b", "a", "(", "2", "5", "5", ",", "0", ",", "0", ",", "1", ")" >>,
    << "r", "e", "d" >> }

C2_SixFormsEquivalent ==
  (Parsed /\ ~color_str.null /\ color_str.s \in SixReds)
    => /\ status = CPAR_STATUS_OK
       /\ ~result.null => result.v = RED

\* C3: an input that reaches the name fallback returns OK with value v
\* exactly when its normalized text is a name of the table whose value is
\* v, and NO_COLOR_NAME otherwise.
ValuesOfName(n) ==
  {cpar_color_name_table[i].value :
     i \in {k \in 1..cpar_n_color_name_table : cpar_color_name_table[k].name = n}}

C3_NameLookupExactAndComplete ==
  (Parsed /\ branch = "name")
    => IF Normalized \in TableNames
       THEN /\ status = CPAR_STATUS_OK
            /\ ~result.null => result.v \in ValuesOfName(Normalized)
       ELSE status = CPAR_STATUS_NO_COLOR_NAME

\* C4: cpar_lookup_color_name(v) returns a name whose table value is v
\* whenever some entry has value v, and NULL whenever none has.
C4_ReverseLookup ==
  (pc = "looked_up")
    => IF value \in TableValues
       THEN ~name.null /\ value \in ValuesOfName(name.name)
       ELSE name.null

\* C5: cpar_strerror returns a description for each of the seven status
\* codes and NULL for every other value, and reads only inside its table
\* of seven strings.
C5_StrerrorTotal ==
  (pc = "described")
    => /\ errcode \in CPAR_STATUS_OK..CPAR_STATUS_NO_COLOR_NAME => ~errstr.null
       /\ errcode \notin CPAR_STATUS_OK..CPAR_STATUS_NO_COLOR_NAME => errstr.null
       /\ errstr.read \in {-1} \cup (0..(Len(error_strings) - 1))

(***************************************************************************)
(* The reading of a parameter list that the claims about the functional    *)
(* forms use: the fields between the commas, and the tokens that are valid *)
(* beyond doubt (decimal digits, a percentage of at most 100, a decimal    *)
(* fraction between 0 and 1).                                              *)
(***************************************************************************)
CommaAt(s) == {i \in 1..Len(s) : s[i] = ","}

RECURSIVE Fields(_)
Fields(s) ==
  IF CommaAt(s) = {} THEN << s >>
  ELSE LET k == CHOOSE i \in CommaAt(s) : \A j \in CommaAt(s) : i <= j
       IN << SubSeq(s, 1, k - 1) >> \o Fields(SubSeq(s, k + 1, Len(s)))

DecDigits == << "0", "1", "2", "3", "4", "5", "6", "7", "8", "9" >>

IsDecimal(s) ==
  /\ s # << >>
  /\ Len(s) <= 4
  /\ \A i \in 1..Len(s) : \E d \in 1..10 : DecDigits[d] = s[i]

RECURSIVE DecValue(_)
DecValue(s) ==
  IF s = << >> THEN 0
  ELSE 10 * DecValue(SubSeq(s, 1, Len(s) - 1))
       + (CHOOSE d \in 1..10 : DecDigits[d] = s[Len(s)]) - 1

IsPercent(t) == t # << >> /\ t[Len(t)] = "%"

ValidRgbToken(t) ==
  IF IsPercent(t)
  THEN LET p == SubSeq(t, 1, Len(t) - 1) IN IsDecimal(p) /\ DecValue(p) <= 100
  ELSE IsDecimal(t) /\ DecValue(t) <= 255

DotAt(t) == {i \in 1..Len(t) : t[i] = "."}

\* The fraction a valid alpha token denotes, as numerator and denominator.
AlphaFraction(t) ==
  IF DotAt(t) = {} THEN [num |-> DecValue(t), den |-> 1]
  ELSE LET k == CHOOSE i \in DotAt(t) : TRUE
           frac == SubSeq(t, k + 1, Len(t))
       IN [num |-> DecValue(SubSeq(t, 1, k - 1)) * Pow10(Len(frac)) + DecValue(frac),
           den |-> Pow10(Len(frac))]

ValidAlphaToken(t) ==
  /\ Cardinality(DotAt(t)) <= 1
  /\ IF DotAt(t) = {} THEN IsDecimal(t)
     ELSE LET k == CHOOSE i \in DotAt(t) : TRUE
          IN IsDecimal(SubSeq(t, 1, k - 1)) /\ IsDecimal(SubSeq(t, k + 1, Len(t)))
  /\ AlphaFraction(t).num <= AlphaFraction(t).den

\* The call took a functional form with its closing parenthesis.
FunctionCall(prefix) ==
  /\ Parsed
  /\ ~color_str.null
  /\ Len(color_str.s) < CPAR_COLOR_PARSE_BUFFER_LEN
  /\ StartsWith(Normalized, prefix)
  /\ Normalized[Len(Normalized)] = ")"

Args(prefix) == Fields(SubSeq(Normalized, Len(prefix) + 1, Len(Normalized) - 1))

RgbPrefix == << "r", "g", "b", "(" >>
RgbaPrefix == << "r", "g", "b", "a", "(" >>

\* Every token is valid for its place: the first three as colour
\* components, the fourth of rgba( as alpha, any further one as either.
AllTokensValid(prefix) ==
  LET args == Args(prefix)
  IN \A i \in 1..Len(args) :
       IF i <= 3 THEN ValidRgbToken(args[i])
       ELSE IF i = 4 /\ prefix = RgbaPrefix THEN ValidAlphaToken(args[i])
       ELSE ValidRgbToken(args[i]) \/ ValidAlphaToken(args[i])

Expected(prefix) == IF prefix = RgbPrefix THEN 3 ELSE 4

\* C7, as the claim states it: with every token valid, exactly 3 tokens for
\* rgb( and exactly 4 for rgba( give OK, and any other count, fewer or
\* more, gives SYNTAX_ERROR.
C7_ExactTokenCount ==
  \A prefix \in {RgbPrefix, RgbaPrefix} :
    (FunctionCall(prefix) /\ AllTokensValid(prefix))
      => IF Len(Args(prefix)) = Expected(prefix)
         THEN status = CPAR_STATUS_OK
         ELSE status = CPAR_STATUS_SYNTAX_ERROR

\* C7, amended: with every token valid, fewer than 3 tokens for rgb( and
\* fewer than 4 for rgba( give SYNTAX_ERROR; with 3 (4) tokens or more the
\* call returns OK and the value of the first 3 (4) tokens alone: the
\* tokens after them are ignored.
C7_AtLeastTokenCount ==
  \A prefix \in {RgbPrefix, RgbaPrefix} :
    (FunctionCall(prefix) /\ AllTokensValid(prefix))
      => IF Len(Args(prefix)) < Expected(prefix)
         THEN status = CPAR_STATUS_SYNTAX_ERROR
         ELSE /\ status = CPAR_STATUS_OK
              /\ ~result.null =>
                   \E impl \in Impls :
                     LET first == SubSeq(Args(prefix), 1, Expected(prefix))
                         o == ParseBody(Str(prefix \o Join(first) \o << ")" >>), impl)
                     IN /\ o.status = CPAR_STATUS_OK
                        /\ result.v = CPAR_COLOR_MAKE(o.ch[1], o.ch[2], o.ch[3], o.ch[4])

\* rgb(127,127,127,255) of the tests: four tokens to rgb(, OK, 0x7f7f7fff.
C7_Witness ==
  /\ FunctionCall(RgbPrefix)
  /\ AllTokensValid(RgbPrefix)
  /\ Len(Args(RgbPrefix)) = 4
  /\ status = CPAR_STATUS_OK
  /\ result = [null |-> FALSE, v |-> << 127, 127, 127, 255 >>]

\* C8: for rgba( with a valid alpha token f in [0, 1] the alpha byte of
\* the result is f rescaled to 0..255 (f * 255, truncated or rounded): 0.5
\* gives 0x7f, 1 gives 0xff.
C8_AlphaRescaled ==
  (/\ FunctionCall(RgbaPrefix)
   /\ AllTokensValid(RgbaPrefix)
   /\ Len(Args(RgbaPrefix)) = 4
   /\ ~result.null)
    => LET f == AlphaFraction(Args(RgbaPrefix)[4])
       IN /\ status = CPAR_STATUS_OK
          /\ CPAR_COLOR_ALPHA(result.v)
               \in {(f.num * 255) \div f.den, (2 * f.num * 255 + f.den) \div (2 * f.den)}

\* C9: for a non-null, non-empty input the call returns TOO_BIG exactly
\* when the input as given, whitespace included, is 64 bytes or longer.
C9_TooBigOnRawLength ==
  (Parsed /\ ~color_str.null /\ color_str.s # << >>)
    => (status = CPAR_STATUS_TOO_BIG
          <=> Len(color_str.s) >= CPAR_COLOR_PARSE_BUFFER_LEN)

\* 64 bytes of which 4 are not whitespace: TOO_BIG.
C9_Witness ==
  /\ Parsed
  /\ ~color_str.null
  /\ Len(color_str.s) = CPAR_COLOR_PARSE_BUFFER_LEN
  /\ Normalized = << "#", "f", "f", "f" >>
  /\ status = CPAR_STATUS_TOO_BIG

HexDigits ==
  << "0", "1", "2", "3", "4", "5", "6", "7", "8", "9", "a", "b", "c", "d", "e", "f" >>

IsHexDigit(c) == \E d \in 1..16 : HexDigits[d] = c

HexValue(c) == (CHOOSE d \in 1..16 : HexDigits[d] = c) - 1

HexPairValue(d, i) == 16 * HexValue(d[i]) + HexValue(d[i + 1])

\* The normalized input is '#' and hexadecimal digits only.
HexCall ==
  /\ Parsed
  /\ ~color_str.null
  /\ Len(color_str.s) < CPAR_COLOR_PARSE_BUFFER_LEN
  /\ Normalized # << >>
  /\ Normalized[1] = "#"
  /\ \A i \in 2..Len(Normalized) : IsHexDigit(Normalized[i])

\* C10: for '#' and hexadecimal digits d: 3 digits give OK, each digit
\* doubled into red, green, blue, alpha 0xff; 6 digits give OK, the pairs
\* as red, green, blue, alpha 0xff; 8 digits give OK, the pairs as red,
\* green, blue, alpha; any other number of digits gives SYNTAX_ERROR.
C10_HexLengths ==
  HexCall =>
    LET d == Tail(Normalized)
    IN IF Len(d) = 3
       THEN /\ status = CPAR_STATUS_OK
            /\ ~result.null =>
                 result.v = << 17 * HexValue(d[1]), 17 * HexValue(d[2]),
                               17 * HexValue(d[3]), 255 >>
       ELSE IF Len(d) = 6
       THEN /\ status = CPAR_STATUS_OK
            /\ ~result.null =>
                 result.v = << HexPairValue(d, 1), HexPairValue(d, 3),
                               HexPairValue(d, 5), 255 >>
       ELSE IF Len(d) = 8
       THEN /\ status = CPAR_STATUS_OK
            /\ ~result.null =>
                 result.v = << HexPairValue(d, 1), HexPairValue(d, 3),
                               HexPairValue(d, 5), HexPairValue(d, 7) >>
       ELSE status = CPAR_STATUS_SYNTAX_ERROR

\* #abc: OK, 0xaabbccff.
C10_Witness ==
  /\ HexCall
  /\ Normalized = << "#", "a", "b", "c" >>
  /\ status = CPAR_STATUS_OK
  /\ result = [null |-> FALSE, v |-> << 170, 187, 204, 255 >>]

\* The normalized input starts with '#'.
HashCall ==
  /\ Parsed
  /\ ~color_str.null
  /\ Len(color_str.s) < CPAR_COLOR_PARSE_BUFFER_LEN
  /\ Normalized # << >>
  /\ Normalized[1] = "#"

\* C11: in the hex form with 3, 6 or 8 characters after '#', a character
\* among them that is not a hexadecimal digit makes the call return
\* INVALID_NUMBER (so OK is returned only when all are hexadecimal digits).
C11_NonHexIsInvalidNumber ==
  (/\ HashCall
   /\ Len(Normalized) - 1 \in {3, 6, 8}
   /\ \E i \in 2..Len(Normalized) : ~IsHexDigit(Normalized[i]))
    => status = CPAR_STATUS_INVALID_NUMBER

(***************************************************************************)
(* The reading of one colour component that the claims about R, G and B    *)
(* tokens use: the token without its '%', and whether that is a decimal    *)
(* integer and one outside 0..255.                                         *)
(***************************************************************************)
Body(t) == IF IsPercent(t) THEN SubSeq(t, 1, Len(t) - 1) ELSE t

AllDigits(d) == \A i \in 1..Len(d) : \E k \in 1..10 : DecDigits[k] = d[i]

\* The digits of b after an optional sign.
Unsigned(b) == IF b # << >> /\ b[1] \in {"+", "-"} THEN Tail(b) ELSE b

IsInteger(b) == Unsigned(b) # << >> /\ AllDigits(Unsigned(b))

\* The digits d denote a number above 255.
Above255(d) ==
  \/ \E k \in 1..(Len(d) - 3) : d[k] # "0"
  \/ DecValue(SubSeq(d, IF Len(d) > 3 THEN Len(d) - 2 ELSE 1, Len(d))) > 255

OutOfRange(b) ==
  IF b[1] = "-" THEN \E k \in 1..Len(Unsigned(b)) : Unsigned(b)[k] # "0"
  ELSE Above255(Unsigned(b))

\* Token i is one of the R, G, B tokens, none of the fields is empty, and
\* the tokens before it are valid.
ReachesToken(prefix, i) ==
  /\ FunctionCall(prefix)
  /\ i <= Len(Args(prefix))
  /\ \A k \in 1..Len(Args(prefix)) : Args(prefix)[k] # << >>
  /\ \A j \in 1..(i - 1) : ValidRgbToken(Args(prefix)[j])

\* C12, as the claim states it: an accepted percentage p gives the channel
\* byte round(p / 100 * 255), rounded to nearest.
C12_PercentRounded ==
  \A prefix \in {RgbPrefix, RgbaPrefix} : \A i \in 1..3 :
    (/\ ReachesToken(prefix, i)
     /\ status = CPAR_STATUS_OK
     /\ ~result.null
     /\ IsPercent(Args(prefix)[i])
     /\ IsDecimal(Body(Args(prefix)[i])))
      => result.v[i] = (DecValue(Body(Args(prefix)[i])) * 255 + 50) \div 100

\* C12, amended: an accepted percentage p of 0..100 gives the channel byte
\* p / 100 * 255 truncated toward zero (50% gives 127).  The range check
\* also accepts p of 101..255: the scaled value is then above 255 and the
\* byte is what its conversion to uint8_t leaves, the low eight bits or 255.
C12_PercentTruncated ==
  \A prefix \in {RgbPrefix, RgbaPrefix} : \A i \in 1..3 :
    (/\ ReachesToken(prefix, i)
     /\ status = CPAR_STATUS_OK
     /\ ~result.null
     /\ IsPercent(Args(prefix)[i])
     /\ IsDecimal(Body(Args(prefix)[i])))
      => LET p == DecValue(Body(Args(prefix)[i]))
         IN /\ p <= 255
            /\ IF p <= 100 THEN result.v[i] = (p * 255) \div 100
               ELSE result.v[i] \in {((p * 255) \div 100) % 256, 255}

\* rgb(50%, 100  %, 127) of the tests: OK, 0x7fff7fff.
C12_Witness ==
  /\ ReachesToken(RgbPrefix, 3)
  /\ Args(RgbPrefix) = << << "5", "0", "%" >>, << "1", "0", "0", "%" >>,
                          << "1", "2", "7" >> >>
  /\ status = CPAR_STATUS_OK
  /\ result = [null |-> FALSE, v |-> << 127, 255, 127, 255 >>]

\* C13: an R, G or B token (with or without '%') that is a decimal integer
\* outside 0..255, negative or however large, gives NUMBER_RANGE.
C13_OutOfRangeIsNumberRange ==
  \A prefix \in {RgbPrefix, RgbaPrefix} : \A i \in 1..3 :
    (/\ ReachesToken(prefix, i)
     /\ IsInteger(Body(Args(prefix)[i]))
     /\ OutOfRange(Body(Args(prefix)[i])))
      => status = CPAR_STATUS_NUMBER_RANGE

\* C14: an R, G or B token that, without its '%', is not a decimal integer
\* (nothing at all, for the token '%') gives INVALID_NUMBER.
C14_NotAnIntegerIsInvalidNumber ==
  \A prefix \in {RgbPrefix, RgbaPrefix} : \A i \in 1..3 :
    (/\ ReachesToken(prefix, i)
     /\ ~IsInteger(Body(Args(prefix)[i])))
      => status = CPAR_STATUS_INVALID_NUMBER

\* The call got past the checks of the parameter and of the length.
NormalizedCall ==
  /\ Parsed
  /\ ~color_str.null
  /\ color_str.s # << >>
  /\ Len(color_str.s) < CPAR_COLOR_PARSE_BUFFER_LEN

\* The branch that the start of the normalized text selects.
BranchOfPrefix ==
  IF StartsWith(Normalized, << "#" >>) THEN "hex"
  ELSE IF StartsWith(Normalized, RgbPrefix) THEN "rgb"
  ELSE IF StartsWith(Normalized, RgbaPrefix) THEN "rgba"
  ELSE "name"

\* C15: one branch is taken, chosen by the start of the normalized text in
\* the order '#', 'rgb(', 'rgba(', name; a text that starts with '#',
\* 'rgb(' or 'rgba(' is not looked up as a name and never gives
\* NO_COLOR_NAME; the name branch gives OK or NO_COLOR_NAME only.
C15_OneBranch ==
  NormalizedCall =>
    /\ branch = BranchOfPrefix
    /\ branch # "name" => status # CPAR_STATUS_NO_COLOR_NAME
    /\ branch = "name" => status \in {CPAR_STATUS_OK, CPAR_STATUS_NO_COLOR_NAME}

\* #f of the tests: SYNTAX_ERROR from the hex branch.
C15_Witness ==
  /\ NormalizedCall
  /\ Normalized = << "#", "f" >>
  /\ branch = "hex"
  /\ status = CPAR_STATUS_SYNTAX_ERROR

\* s without its whitespace, the letters in lower case.
Stripped(s) ==
  LET kept == SelectSeq(s, LAMBDA c : ~isspace(c))
  IN [i \in 1..Len(kept) |-> tolower(kept[i])]

\* The call returned what a call on the text t returns.
SameAsParseOf(t) ==
  \E impl \in Impls :
    LET o == ParseBody(Str(t), impl)
    IN /\ status = o.status
       /\ (status = CPAR_STATUS_OK /\ ~result.null)
            => result.v = CPAR_COLOR_MAKE(o.ch[1], o.ch[2], o.ch[3], o.ch[4])

\* C16, as the claim states it: every input shorter than 64 bytes parses
\* to the status and value of the input without whitespace, in lower case.
C16_SameAsNormalized ==
  (Parsed /\ ~color_str.null /\ Len(color_str.s) < CPAR_COLOR_PARSE_BUFFER_LEN)
    => SameAsParseOf(Stripped(color_str.s))

\* C16, amended: every input shorter than 64 bytes that has a character
\* other than whitespace parses to the status and value of the input
\* without whitespace, in lower case; an input of whitespace only gives
\* NO_COLOR_NAME, where its normalized form, the empty string, gives
\* INVALID_PARAMETER.
C16_SameAsNormalizedUnlessBlank ==
  (Parsed /\ ~color_str.null /\ Len(color_str.s) < CPAR_COLOR_PARSE_BUFFER_LEN)
    => IF color_str.s # << >> /\ Stripped(color_str.s) = << >>
       THEN /\ status = CPAR_STATUS_NO_COLOR_NAME
            /\ \A impl \in Impls :
                 ParseBody(Str(<< >>), impl).status = CPAR_STATUS_INVALID_PARAMETER
       ELSE SameAsParseOf(Stripped(color_str.s))

\* rgb ( 1, 2, 3 ) of the tests: OK, 0x010203ff, as rgb(1,2,3).
C16_Witness ==
  /\ Parsed
  /\ Input(<< "r", "g", "b", " ", "(", " ", "1", ",", " ", "2", ",", " ", "3", " ", ")" >>)
  /\ Stripped(color_str.s) = << "r", "g", "b", "(", "1", ",", "2", ",", "3", ")" >>
  /\ status = CPAR_STATUS_OK
  /\ result = [null |-> FALSE, v |-> << 1, 2, 3, 255 >>]

\* '#' and eight hexadecimal digits, in any case.
EightHex(s) ==
  /\ Len(s) = 9
  /\ s[1] = "#"
  /\ \A i \in 2..9 : IsHexDigit(tolower(s[i]))

\* C17: a string '#rrggbbaa' of eight hexadecimal digits parses with OK,
\* and to_string of the result is the string in lower case.
C17_RoundTrip ==
  (~color_str.null /\ EightHex(color_str.s))
    => /\ pc = "parsed" => status = CPAR_STATUS_OK
       /\ pc = "rendered" => text = Str([i \in 1..9 |-> tolower(color_str.s[i])])

\* #FF00FF7F comes back as #ff00ff7f.
C17_Witness ==
  /\ pc = "rendered"
  /\ Input(<< "#", "F", "F", "0", "0", "F", "F", "7", "F" >>)
  /\ result.v = << 255, 0, 255, 127 >>
  /\ text = Str(<< "#", "f", "f", "0", "0", "f", "f", "7", "f" >>)

\* C18: the call returns INVALID_PARAMETER when, and only when, color_str
\* is NULL or the empty string, however long the string and whatever is
\* left of it without whitespace.
C18_InvalidParameter ==
  Parsed => (status = CPAR_STATUS_INVALID_PARAMETER
               <=> (color_str.null \/ color_str.s = << >>))

\* The empty string: INVALID_PARAMETER, the slot as it was.
C18_Witness ==
  /\ Parsed
  /\ color_str = Str(<< >>)
  /\ status = CPAR_STATUS_INVALID_PARAMETER
  /\ result = [null |-> FALSE, v |-> << 0, 0, 0, 255 >>]

\* C19, as the claim states it: the name lookup receives a non-empty
\* string only; an input of whitespace only does not reach it.
C19_NameLookupNonEmpty ==
  (Parsed /\ branch = "name") => Normalized # << >>

\* C19, amended: the name lookup receives the normalized string when it
\* starts with none of '#', 'rgb(', 'rgba(', the empty one included: an
\* input of whitespace only reaches the name lookup with the empty string,
\* which is no name of the table, and the call returns NO_COLOR_NAME.
C19_BlankReachesNameLookup ==
  NormalizedCall =>
    /\ branch = "name" <=> BranchOfPrefix = "name"
    /\ Normalized = << >> => (branch = "name" /\ status = CPAR_STATUS_NO_COLOR_NAME)

\* Three spaces: the name branch, NO_COLOR_NAME.
C19_Witness ==
  /\ NormalizedCall
  /\ Input(<< " ", " ", " " >>)
  /\ branch = "name"
  /\ status = CPAR_STATUS_NO_COLOR_NAME

Tokens(prefix) == SelectSeq(Args(prefix), LAMBDA f : f # << >>)

\* The tokens the loop examines: the first 3 of rgb(, the first 4 of rgba(.
Examined(prefix) ==
  SubSeq(Tokens(prefix), 1,
         IF Len(Tokens(prefix)) < Expected(prefix) THEN Len(Tokens(prefix))
         ELSE Expected(prefix))

\* The status of token k of toks from its component parser.
TokenStatus(toks, k, impl) ==
  ParseComponent(toks[k], k - 1, << 0, 0, 0, 255 >>, impl).status

\* The examined tokens that fail.
Failing(toks, impl) ==
  {k \in 1..Len(toks) : TokenStatus(toks, k, impl) # CPAR_STATUS_OK}

\* The status of the leftmost failing token of toks.
LeftmostFailure(toks, impl) ==
  TokenStatus(toks, CHOOSE k \in Failing(toks, impl) :
                      \A j \in Failing(toks, impl) : k <= j, impl)

\* C21: in a functional form a missing closing ')' gives SYNTAX_ERROR
\* whatever the contents; otherwise the status of the leftmost failing
\* token among those examined is returned as it is, also when the count of
\* tokens is wrong; SYNTAX_ERROR for the count is returned only when no
\* examined token failed.
C21_FirstFailureReturned ==
  \A prefix \in {RgbPrefix, RgbaPrefix} :
    (NormalizedCall /\ StartsWith(Normalized, prefix))
      => IF Normalized[Len(Normalized)] # ")"
         THEN status = CPAR_STATUS_SYNTAX_ERROR
         ELSE \E impl \in Impls :
                IF Failing(Examined(prefix), impl) # {}
                THEN /\ status = LeftmostFailure(Examined(prefix), impl)
                     /\ status \in {CPAR_STATUS_INVALID_NUMBER, CPAR_STATUS_NUMBER_RANGE}
                ELSE status = IF Len(Tokens(prefix)) < Expected(prefix)
                              THEN CPAR_STATUS_SYNTAX_ERROR
                              ELSE CPAR_STATUS_OK

\* rgb(256,256,256,1) of the tests: four tokens to rgb(, NUMBER_RANGE from
\* the first.
C21_Witness ==
  /\ FunctionCall(RgbPrefix)
  /\ Tokens(RgbPrefix) = << << "2", "5", "6" >>, << "2", "5", "6" >>,
                            << "2", "5", "6" >>, << "1" >> >>
  /\ status = CPAR_STATUS_NUMBER_RANGE

\* C23: an accepted percentage token is at most 100%, and the byte stored
\* for it is its scaled value, value * 255 / 100, which is within 0..255.
C23_PercentWithinByte ==
  \A prefix \in {RgbPrefix, RgbaPrefix} : \A i \in 1..3 :
    (/\ FunctionCall(prefix)
     /\ status = CPAR_STATUS_OK
     /\ ~result.null
     /\ i <= Len(Tokens(prefix))
     /\ IsPercent(Tokens(prefix)[i])
     /\ IsDecimal(Body(Tokens(prefix)[i])))
      => /\ DecValue(Body(Tokens(prefix)[i])) <= 100
         /\ (DecValue(Body(Tokens(prefix)[i])) * 255) \div 100 \in 0..255
         /\ result.v[i] = (DecValue(Body(Tokens(prefix)[i])) * 255) \div 100

\* C25: a functional form with an empty component in its parameter list (a
\* leading, trailing or doubled comma) never returns OK.
C25_EmptyComponentRejected ==
  \A prefix \in {RgbPrefix, RgbaPrefix} :
    (/\ FunctionCall(prefix)
     /\ Len(Args(prefix)) >= 2
     /\ \E k \in 1..Len(Args(prefix)) : Args(prefix)[k] = << >>)
      => status # CPAR_STATUS_OK

\* C22: cpar_color_parse leaves errno as it found it, on every branch and
\* whatever the status it returns.
C22_ErrnoPreserved ==
  [][pc = "call_parse" => errno' = errno]_vars

\* C24: the counter buffer_len stays within 0..63 during a parse, the
\* inputs that normalize to exactly rgb( or rgba( included: it is never
\* decremented below zero.
C24_BufferLenInRange ==
  Parsed => /\ buffer_len[1] = 0
            /\ buffer_len[2] = 0
            /\ buffer_len[3] = 0
            /\ buffer_len[4] \in 0..(CPAR_COLOR_PARSE_BUFFER_LEN - 1)

\* C6: two concurrent calls each return the status, and store the value,
\* that the same call returns when it runs alone.
Alone(t, impl) == cpar_color_parse(t_in[t], ThreadSlot, impl)

C6_ConcurrentAsAlone ==
  \A t \in Threads :
    t_pc[t] = "done"
      => \E impl \in Impls : /\ t_status[t] = Alone(t, impl).status
                             /\ t_result[t] = Alone(t, impl).result

=============================================================================
